---- MODULE Spec2Model ----
(***************************************************************************)
(* A model of authum's AWS credential lifecycle (authum.plugins.aws.lib):   *)
(* the keyring-backed AWSData record, the cacheable entities (SSO client   *)
(* registration, SSO device authorization, SSO role credentials, SAML role *)
(* credentials), the device-authorization poll loop, the saml_request hook *)
(* dispatch and the SAML/STS exchange with optional role chaining.         *)
(*                                                                         *)
(* Python dicts are functions with a finite domain of strings; a dataclass *)
(* instance is the record of its fields.  Python's None is the string      *)
(* NoneVal.  Timestamps are whole seconds.                                 *)
(***************************************************************************)
EXTENDS Integers, Sequences, FiniteSets, TLC

(* ------------------------------ bounds -------------------------------- *)

\* the clock stops at MaxTime
MaxTime == 3

\* at most MaxPolls pending / slow-down answers are given to one device flow
MaxPolls == 3

(* ------------------------- program constants -------------------------- *)

\* interval += 5 on SlowDownException
SlowDownIncrement == 5

\* datetime.fromtimestamp raises ValueError beyond year 9999 (253402300799 s);
\* the model's 32-bit integers hold this smaller stand-in, which no timestamp
\* a provider issues in the model exceeds
MaxTimestamp == 1000000

NoneVal == "<None>"

JUMPCLOUD_SSO_DOMAIN == "sso.jumpcloud.com"

ROLE_ATTR == "https://aws.amazon.com/SAML/Attributes/Role"

DURATION_ATTR == "https://aws.amazon.com/SAML/Attributes/SessionDuration"

(* --------------------------- input domains ---------------------------- *)

Names == {"dev"}

StartUrls == {"https://a.awsapps.com/start#/"}

SecondaryRole == "arn:aws:iam::2:role/Second"

\* (assume_role_arn, assume_role_external_id) as the command line passes them
SecondaryArgs == { <<NoneVal, NoneVal>>, <<SecondaryRole, NoneVal>>, <<SecondaryRole, "ext">> }

\* the interval start_device_authorization dictates
ProviderIntervals == {1, 5}

\* the SAML application URLs given to add-saml
SamlUrls ==
    { "https://corp.okta.com/app/aws/sso/saml",
      "https://sso.jumpcloud.com/saml2/aws",
      "https://idp.example.org/saml" }

\* the values of the Okta plugin's configured domain
OktaDomains == { "corp.okta.com", "jumpcloud.com", "login.corp.okta.com" }

(* --------------------------- dict helpers ----------------------------- *)

EmptyDict == [k \in {} |-> 0]

Get(d, k, default) == IF k \in DOMAIN d THEN d[k] ELSE default

Put(d, k, v) == [x \in (DOMAIN d) \cup {k} |-> IF x = k THEN v ELSE d[x]]

Del(d, k) == [x \in (DOMAIN d) \ {k} |-> d[x]]

(* ------------------------------ state --------------------------------- *)

VARIABLES
    now,       \* the wall clock, seconds
    keyring,   \* the keyring entry (authum, aws)
    cache,     \* CacheableAWSObject.cache._data, the class-level AWSData record
    pc,        \* position of the running invocation
    frame,     \* its locals
    calls,     \* provider / network calls issued by the running invocation
    sleeps,    \* the arguments of time.sleep in the running device flow
    ret,       \* the renew() call that ended in the last step
    ad,        \* a second AWSData handle (as made by the CLI commands)
    lastSet,   \* the last set_credentials on ad
    oktaRec,   \* the keyring entry (authum, okta), decoded: OktaData
    jcRec,     \* the keyring entry (authum, jumpcloud), decoded: JumpCloudData
    auth,      \* the get_okta_client / get_jumpcloud_client call that ended last
    plug,      \* plugin.manager, and the load_plugins or hook call that ended last
    stored,    \* a keyring entry (authum, name), as the keyring service holds it
    item,      \* the KeyringItem handle over it, and its call that ended last
    relay,     \* a DuoWebV2 object and the threads of its prompt()
    procs,     \* two invocations at work on one keyring entry
    heap       \* provider clients and the session objects they refer to

\* the variables of the AWS plugin, and those of the rest of the program
core == <<now, keyring, cache, pc, frame, calls, sleeps, ret, ad, lastSet>>

\* the identity providers' records and the running client call
idp == <<oktaRec, jcRec, auth>>

\* the plugin manager, and a keyring entry with a KeyringItem over it
ext == <<plug, stored, item>>

\* what runs beside the main flow, or twice
conc == <<relay, procs, heap>>

aux == <<idp, ext, conc>>

vars == <<core, aux>>

(* ------------------------ persistence.KeyringItem --------------------- *)

KeyringAbsent == [kind |-> "absent"]

\* json.dumps(self._data, default=str): the values the entities store are
\* strings, numbers, None and dicts keyed by strings, which json.loads returns
\* as they were; the entry is represented by the value its text decodes to
JsonDumps_without_baz(data) ==
    [kind |-> "json", text |-> [k \in DOMAIN data \ {"baz"} |-> data[k]]]

JsonDumps(data) == [kind |-> "json", text |-> data]

\* KeyringItem.save
Save(data) == JsonDumps(data)

\* KeyringItem.load on a fresh handle: a JSONDecodeError leaves _data = {}
Load(entry) == IF entry.kind = "json" THEN entry.text ELSE EmptyDict

(* ------------------------- CacheableAWSObject ------------------------- *)

\* ttl, in seconds
Ttl(exp, t) == IF exp > MaxTimestamp THEN 0 ELSE exp - t

\* an is_expired that takes a timestamp of 0 for "no expiry"
IsExpired_zero_is_fresh(exp, t) == exp # 0 /\ Ttl(exp, t) < 0

IsExpired(exp, t) == Ttl(exp, t) < 0

\* `not local_val`
Falsy(field, v) == IF field = "expiration_timestamp" THEN v = 0 ELSE v \in {"", NoneVal}

\* a load in which the cache takes precedence over the caller
load_cached_fields_cache_first(self, slot) ==
    [f \in DOMAIN self |-> Get(slot, f, self[f])]

load_cached_fields(self, slot) ==
    [f \in DOMAIN self |-> IF Falsy(f, self[f]) THEN Get(slot, f, self[f]) ELSE self[f]]

\* a renew that never returns early
SkipRenew_never(force, self, t) == FALSE

\* a renew whose early return ignores `force`
SkipRenew_ignores_force(force, self, t) == ~IsExpired(self.expiration_timestamp, t)

\* `if not force and not self.is_expired: return`
SkipRenew(force, self, t) == ~force /\ ~IsExpired(self.expiration_timestamp, t)

(* ------------------------------ entities ------------------------------ *)

NewRegistration == [expiration_timestamp |-> 0, client_id |-> "", client_secret |-> ""]

NewAuthorization(url) == [expiration_timestamp |-> 0, start_url |-> url, access_token |-> ""]

RegistrationSlot(c) == Get(Get(c, "sso", EmptyDict), "registration", EmptyDict)

AuthorizationSlot(c, url) ==
    Get(Get(Get(c, "sso", EmptyDict), "authorization", EmptyDict), url, EmptyDict)

CredentialsSlot(c, name) == Get(Get(c, "credentials", EmptyDict), name, EmptyDict)

\* self.cache.setdefault("sso", {})["registration"] = dataclasses.asdict(self)
WriteRegistration(c, self) == Put(c, "sso", Put(Get(c, "sso", EmptyDict), "registration", self))

\* self.cache.setdefault("sso", {}).setdefault("authorization", {})[start_url] = asdict(self)
WriteAuthorization_replaces(c, self) ==
    LET sso == Get(c, "sso", EmptyDict)
    IN Put(c, "sso", Put(sso, "authorization", Put(EmptyDict, self.start_url, self)))

WriteAuthorization(c, self) ==
    LET sso == Get(c, "sso", EmptyDict)
        az  == Get(sso, "authorization", EmptyDict)
    IN Put(c, "sso", Put(sso, "authorization", Put(az, self.start_url, self)))

\* self.cache.setdefault("credentials", {})[self.name] = dataclasses.asdict(self)
WriteCredentials(c, self) ==
    Put(c, "credentials", Put(Get(c, "credentials", EmptyDict), self.name, self))

\* `if v:` on a string field
Truthy(v) == v \notin {"", NoneVal}

\* the fields of AWSRoleCredentials
BaseCredentials(name, sec) ==
    [expiration_timestamp |-> 0, name |-> name, access_key_id |-> "",
     secret_access_key |-> "", session_token |-> "", assume_role_arn |-> sec[1],
     assume_role_external_id |-> sec[2], sts_endpoint |-> NoneVal]

\* AWSSSORoleCredentials(name, start_url, account_id, role_name, ...) as add-sso builds it
NewSSORoleCredentials(name, url, sec) ==
    [f \in DOMAIN BaseCredentials(name, sec) \cup {"start_url", "account_id", "role_name"} |->
        CASE f = "start_url" -> url
          [] f = "account_id" -> "123456789012"
          [] f = "role_name" -> "TestRole"
          [] OTHER -> BaseCredentials(name, sec)[f]]

\* AWSSAMLRoleCredentials(name, saml_url, ...) as add-saml builds it
NewSAMLRoleCredentials(name, url, sec) ==
    [f \in DOMAIN BaseCredentials(name, sec) \cup {"saml_url"} |->
        IF f = "saml_url" THEN url ELSE BaseCredentials(name, sec)[f]]

\* an instance of a dataclass: its class and its fields
Instance(variant, fields) == [variant |-> variant, fields |-> fields]

\* dataclasses.asdict
asdict(v) == v.fields

\* AWSData.credentials on the record `data`: the class is chosen by the
\* presence of start_url, the instance is built from the stored fields
Credentials(data, name) ==
    LET args == data["credentials"][name]
    IN IF "start_url" \in DOMAIN args
       THEN Instance("AWSSSORoleCredentials", args)
       ELSE Instance("AWSSAMLRoleCredentials", args)

\* the names AWSData.list_credentials iterates
StoredNames(data) == DOMAIN Get(data, "credentials", EmptyDict)

\* AWSData.list_credentials
ListCredentials(data) == [name \in StoredNames(data) |-> Credentials(data, name)]

(* ------------------------------ history ------------------------------- *)

NoRet == [kind |-> "none"]

NoError == [type |-> "", msg |-> "", arg |-> ""]

Error(type, msg, arg) == [type |-> type, msg |-> msg, arg |-> arg]

\* the renew() of an entity of `kind` ended with `outcome` (skipped, renewed,
\* raised, then with `error`); `entry` is the state at its start, `expired`
\* is_expired after its load(), `self` the entity at its end
Ret(kind, force, expired, outcome, error, self, entry) ==
    [kind |-> kind, force |-> force, expired |-> expired, outcome |-> outcome,
     error |-> error, self |-> self, cache0 |-> entry.cache0,
     keyring0 |-> entry.keyring0, ncalls0 |-> entry.ncalls0]

Entry == [cache0 |-> cache, keyring0 |-> keyring, ncalls0 |-> Len(calls)]

NoEntry == [cache0 |-> EmptyDict, keyring0 |-> KeyringAbsent, ncalls0 |-> 0]

Call(api, args) == [api |-> api, args |-> args]

NoSet ==
    [name |-> "", v |-> Instance("", EmptyDict), op |-> "", current_name |-> "",
     new_name |-> "", ad0 |-> EmptyDict, keyring0 |-> KeyringAbsent, out |-> "",
     error |-> NoError]

\* no get_okta_client / get_jumpcloud_client call has just ended
NoAuth == [provider |-> "none", stage |-> "idle"]

\* no module is imported, no plugin registered
NoPlug ==
    [op |-> "none", modules |-> <<>>, broken |-> {}, registered |-> <<>>, out |-> "none",
     error |-> NoError, invoked |-> <<>>, answers |-> <<>>, result |-> <<>>]

\* no KeyringItem is constructed
NoItem ==
    [op |-> "none", data |-> EmptyDict, out |-> "none", error |-> NoError,
     initial |-> EmptyDict, entry0 |-> KeyringAbsent, entry1 |-> KeyringAbsent]

\* no DuoWebV2 is constructed
NoRelay == [stage |-> "none"]

\* no invocation is at work
NoProcs == [stage |-> "none"]

\* no client is constructed
NoHeap == [stage |-> "none"]

NoFrame ==
    [ctx |-> "none", force |-> FALSE, freg |-> FALSE, fauth |-> FALSE, url |-> "",
     self |-> EmptyDict, registration |-> EmptyDict, authorization |-> EmptyDict,
     loaded |-> EmptyDict, given |-> EmptyDict, interval |-> 0, dictated |-> 0, answers |-> <<>>,
     selfEntry |-> NoEntry, authEntry |-> NoEntry,
     selfExpired |-> FALSE, authExpired |-> FALSE,
     oktaDomain |-> "", answer |-> [auth |-> ""]]

(* ---------------------- construction of the entities ------------------ *)

RequireFields_none(self, fields) == <<>>

\* CacheableAWSObject.require_fields(*fields): the missing fields,
\* `[field for field in fields if not getattr(self, field)]`
RequireFields(self, fields) ==
    LET Missing(f) == Falsy(f, self[f])
    IN SelectSeq(fields, Missing)

\* __post_init__ of AWSSSOAuthorization, AWSSSORoleCredentials and
\* AWSSAMLRoleCredentials (after AWSRoleCredentials.__post_init__): the
\* missing fields of the first require_fields that finds any
PostInit(variant, self) ==
    IF variant = "AWSSSOAuthorization"
    THEN RequireFields(self, <<"start_url">>)
    ELSE LET base == RequireFields(self, <<"name">>)
         IN IF base # <<>> THEN base
            ELSE IF variant = "AWSSSORoleCredentials"
            THEN RequireFields(self, <<"start_url", "account_id", "role_name">>)
            ELSE RequireFields(self, <<"saml_url">>)

\* the construction of an entity of `kind` raised
\* ValueError("Missing required fields: ...") naming `missing`
ConstructionFailed(kind, force, self, missing) ==
    Ret(kind, force, FALSE, "raised", Error("ValueError", "Missing required fields", ""),
        self, Entry) @@ ("missing" :> missing)

(* ------------------------------- Init --------------------------------- *)

Init ==
    /\ now = 1
    /\ keyring = KeyringAbsent
    /\ cache = Load(KeyringAbsent)
    /\ pc = "idle"
    /\ frame = NoFrame
    /\ calls = <<>>
    /\ sleeps = <<>>
    /\ ret = NoRet
    /\ ad = EmptyDict
    /\ lastSet = NoSet
    /\ oktaRec = EmptyDict
    /\ jcRec = EmptyDict
    /\ auth = NoAuth
    /\ plug = NoPlug
    /\ stored = KeyringAbsent
    /\ item = NoItem
    /\ relay = NoRelay
    /\ procs = NoProcs
    /\ heap = NoHeap

(* ------------------------------ the clock ----------------------------- *)

\* time passes between invocations; an invocation reads one clock value
Tick ==
    /\ now < MaxTime
    /\ pc = "idle"
    /\ now' = now + 1
    /\ ret' = NoRet
    /\ UNCHANGED <<keyring, cache, pc, frame, calls, sleeps, ad, lastSet, aux>>

(* --------------------------- AWSSSOClient ----------------------------- *)

\* AWSSSOClient(start_url, force_renew_registration, force_renew_authorization)
SSOClientBegin(url, freg, fauth) ==
    /\ pc = "idle"
    /\ pc' = "registration"
    /\ frame' = [NoFrame EXCEPT !.ctx = "client", !.url = url, !.freg = freg, !.fauth = fauth]
    /\ calls' = <<>>
    /\ sleeps' = <<>>
    /\ ret' = NoRet
    /\ UNCHANGED <<now, keyring, cache, ad, lastSet, aux>>

\* the answers of sso-oidc register_client
RegisterClientResponses ==
    { [ok |-> TRUE, clientId |-> "CID", clientSecret |-> "CSECRET", clientSecretExpiresAt |-> now + 1],
      [ok |-> FALSE, clientId |-> "", clientSecret |-> "", clientSecretExpiresAt |-> 0] }

\* AWSSSORegistration().renew(force)
RegistrationRenew ==
    /\ pc = "registration"
    /\ LET self    == load_cached_fields(NewRegistration, RegistrationSlot(cache))
           expired == IsExpired(self.expiration_timestamp, now)
       IN IF SkipRenew(frame.freg, self, now)
          THEN /\ ret' = Ret("registration", frame.freg, expired, "skipped", NoError, self, Entry)
               /\ frame' = [frame EXCEPT !.registration = self]
               /\ pc' = "authorization"
               /\ UNCHANGED <<cache, keyring, calls>>
          ELSE \E r \in RegisterClientResponses :
               /\ calls' = Append(calls, Call("register_client", [clientType |-> "public"]))
               /\ IF r.ok
                  THEN LET renewed == [self EXCEPT !.client_id = r.clientId,
                                                   !.client_secret = r.clientSecret,
                                                   !.expiration_timestamp = r.clientSecretExpiresAt]
                       IN /\ cache' = WriteRegistration(cache, renewed)
                          /\ keyring' = Save(cache')
                          /\ ret' = Ret("registration", frame.freg, expired, "renewed", NoError, renewed, Entry)
                          /\ frame' = [frame EXCEPT !.registration = renewed]
                          /\ pc' = "authorization"
                  ELSE /\ ret' = Ret("registration", frame.freg, expired, "raised", Error("ClientError", "register_client", ""), self, Entry)
                       /\ pc' = "done"
                       /\ UNCHANGED <<cache, keyring, frame>>
    /\ UNCHANGED <<now, sleeps, ad, lastSet, aux>>

(* ------------------------ AWSSSOAuthorization ------------------------- *)

\* the answers of sso-oidc start_device_authorization
StartDeviceAuthorizationResponses ==
    { [ok |-> TRUE, deviceCode |-> "DEVICECODE", interval |-> i] : i \in ProviderIntervals }
    \cup { [ok |-> FALSE, deviceCode |-> "", interval |-> 0] }

\* AWSSSOAuthorization(start_url), with its __post_init__, and
\* renew(registration, force) up to the poll loop
AuthorizationRenewBegin ==
    /\ pc = "authorization"
    /\ LET self    == load_cached_fields(NewAuthorization(frame.url),
                                         AuthorizationSlot(cache, frame.url))
           expired == IsExpired(self.expiration_timestamp, now)
           missing == PostInit("AWSSSOAuthorization", NewAuthorization(frame.url))
       IN IF missing # <<>>
          THEN /\ ret' = ConstructionFailed("authorization", frame.fauth,
                                            NewAuthorization(frame.url), missing)
               /\ pc' = "done"
               /\ UNCHANGED <<calls, frame>>
          ELSE IF SkipRenew(frame.fauth, self, now)
          THEN /\ ret' = Ret("authorization", frame.fauth, expired, "skipped", NoError, self, Entry)
               /\ frame' = [frame EXCEPT !.authorization = self]
               /\ pc' = "client"
               /\ UNCHANGED calls
          ELSE \E r \in StartDeviceAuthorizationResponses :
               /\ calls' = Append(calls, Call("start_device_authorization",
                                   [clientId |-> frame.registration.client_id,
                                    clientSecret |-> frame.registration.client_secret,
                                    startUrl |-> self.start_url]))
               /\ IF r.ok
                  THEN /\ frame' = [frame EXCEPT !.authorization = self,
                                                 !.authEntry = Entry,
                                                 !.authExpired = expired,
                                                 !.interval = r.interval,
                                                 !.dictated = r.interval,
                                                 !.answers = <<>>]
                       /\ ret' = NoRet
                       /\ pc' = "polling"
                  ELSE /\ ret' = Ret("authorization", frame.fauth, expired, "raised",
                                     Error("ClientError", "start_device_authorization", ""),
                                     self, Entry)
                       /\ pc' = "done"
                       /\ UNCHANGED frame
    /\ UNCHANGED <<now, keyring, cache, sleeps, ad, lastSet, aux>>

\* what create_token answers: a token, AuthorizationPendingException,
\* SlowDownException, or any other exception
CreateTokenAnswers == {"success", "pending", "slow_down", "error"}

\* a loop that does not catch SlowDownException
KeepsPolling_pending_only(answer) == answer = "pending"

\* the exceptions the loop catches: AuthorizationPendingException and
\* SlowDownException
KeepsPolling(answer) == answer \in {"pending", "slow_down"}

\* `interval = 5` in place of `interval += 5`
NextInterval_assigns(interval, answer) ==
    IF answer = "slow_down" THEN SlowDownIncrement ELSE interval

\* the interval after an answer that keeps the loop going
NextInterval(interval, answer) ==
    IF answer = "slow_down" THEN interval + SlowDownIncrement ELSE interval

\* one iteration of the poll loop of AWSSSOAuthorization.renew
CreateToken(answer) ==
    /\ pc = "polling"
    /\ answer \in {"pending", "slow_down"} => Len(frame.answers) < MaxPolls
    /\ calls' = Append(calls, Call("create_token",
                        [clientId |-> frame.registration.client_id,
                         clientSecret |-> frame.registration.client_secret,
                         deviceCode |-> "DEVICECODE"]))
    /\ IF answer = "success"
       THEN   LET renewed == [frame.authorization EXCEPT
                                 !.access_token = "ACCESSTOKEN",
                                 !.expiration_timestamp = now + 1]
              IN /\ cache' = WriteAuthorization(cache, renewed)
                 /\ keyring' = Save(cache')
                 /\ frame' = [frame EXCEPT !.authorization = renewed,
                                           !.answers = Append(@, answer)]
                 /\ ret' = Ret("authorization", frame.fauth, frame.authExpired, "renewed",
                               NoError, renewed, frame.authEntry)
                 /\ pc' = "client"
                 /\ UNCHANGED sleeps
       ELSE IF KeepsPolling(answer)
       THEN   LET interval == NextInterval(frame.interval, answer)
              IN /\ frame' = [frame EXCEPT !.interval = interval,
                                           !.answers = Append(@, answer)]
                 /\ sleeps' = Append(sleeps, interval)
                 /\ ret' = NoRet
                 /\ UNCHANGED <<cache, keyring, pc>>
       ELSE   /\ ret' = Ret("authorization", frame.fauth, frame.authExpired, "raised",
                            Error("ClientError", "create_token", ""), frame.authorization,
                            frame.authEntry)
              /\ frame' = [frame EXCEPT !.answers = Append(@, answer)]
              /\ pc' = "done"
              /\ UNCHANGED <<cache, keyring, sleeps>>
    /\ UNCHANGED <<now, ad, lastSet, aux>>

\* AWSSSOClient.__init__ returns to authorize-sso / ls-sso-roles
SSOClientDone ==
    /\ pc = "client"
    /\ frame.ctx = "client"
    /\ pc' = "done"
    /\ ret' = NoRet
    /\ UNCHANGED <<now, keyring, cache, frame, calls, sleeps, ad, lastSet, aux>>

(* ------------------------- AWSRoleCredentials ------------------------- *)

CallerIdentityArn == "arn:aws:sts::123456789012:assumed-role/TestRole/test@example.com"

\* arn.iam.AssumedRoleArn(arn).role_session_name
RoleSessionName(arn) == IF arn = CallerIdentityArn THEN "test@example.com" ELSE ""

\* the keys the STS client of assume_role signs with
StsClientArgs(self) ==
    [aws_access_key_id |-> self.access_key_id,
     aws_secret_access_key |-> self.secret_access_key,
     aws_session_token |-> self.session_token,
     endpoint_url |-> IF Truthy(self.sts_endpoint) THEN self.sts_endpoint ELSE NoneVal]

AssumeRoleArgs(self, identity) ==
    LET args == [RoleArn |-> self.assume_role_arn,
                 RoleSessionName |-> RoleSessionName(identity)]
    IN IF Truthy(self.assume_role_external_id)
       THEN Put(args, "ExternalId", self.assume_role_external_id)
       ELSE args

\* the answers of sts assume_role
AssumeRoleResponses ==
    { [ok |-> TRUE, AccessKeyId |-> "AK2", SecretAccessKey |-> "SK2",
       SessionToken |-> "ST2", Expiration |-> now + 2],
      [ok |-> FALSE, AccessKeyId |-> "", SecretAccessKey |-> "",
       SessionToken |-> "", Expiration |-> 0] }

\* an assume_role that signs with the primary keys but keeps the primary
\* expiration
AssumeRole_keeps_expiration(self) ==
    LET identity == Call("get_caller_identity", [client |-> StsClientArgs(self)])
        assume   == Call("assume_role", [client |-> StsClientArgs(self),
                                         args |-> AssumeRoleArgs(self, CallerIdentityArn)])
    IN { [ok |-> r.ok,
          error |-> IF r.ok THEN NoError ELSE Error("ClientError", "assume_role", ""),
          calls |-> <<identity, assume>>,
          self |-> IF r.ok
                   THEN [self EXCEPT !.access_key_id = r.AccessKeyId,
                                     !.secret_access_key = r.SecretAccessKey,
                                     !.session_token = r.SessionToken]
                   ELSE self] : r \in AssumeRoleResponses }

\* an assume_role that hides the failure of its calls from renew()
AssumeRole_swallows_failure(self) ==
    { [ok |-> TRUE, error |-> NoError,
       calls |-> <<Call("get_caller_identity", [client |-> StsClientArgs(self)])>>,
       self |-> self] }

\* AWSRoleCredentials.assume_role: the ways it can end, each with the calls
\* it issued and the entity it leaves
AssumeRole(self) ==
    LET identity == Call("get_caller_identity", [client |-> StsClientArgs(self)])
        assume   == Call("assume_role", [client |-> StsClientArgs(self),
                                         args |-> AssumeRoleArgs(self, CallerIdentityArn)])
    IN { [ok |-> FALSE, error |-> Error("ClientError", "get_caller_identity", ""),
          calls |-> <<identity>>, self |-> self] }
       \cup
       { [ok |-> r.ok,
          error |-> IF r.ok THEN NoError ELSE Error("ClientError", "assume_role", ""),
          calls |-> <<identity, assume>>,
          self |-> IF r.ok
                   THEN [self EXCEPT !.access_key_id = r.AccessKeyId,
                                     !.secret_access_key = r.SecretAccessKey,
                                     !.session_token = r.SessionToken,
                                     !.expiration_timestamp = r.Expiration]
                   ELSE self] : r \in AssumeRoleResponses }

\* `if self.assume_role_arn: self.assume_role()`
MaybeAssumeRole(self) ==
    IF Truthy(self.assume_role_arn)
    THEN AssumeRole(self)
    ELSE { [ok |-> TRUE, error |-> NoError, calls |-> <<>>, self |-> self] }

(* ------------------------ AWSSSORoleCredentials ----------------------- *)

\* AWSSSORoleCredentials.renew(force), up to the construction of AWSSSOClient
SSORoleRenewBegin(self0, force) ==
    /\ pc = "idle"
    /\ LET self    == load_cached_fields(self0, CredentialsSlot(cache, self0.name))
           expired == IsExpired(self.expiration_timestamp, now)
       IN IF SkipRenew(force, self, now)
          THEN /\ ret' = Ret("sso_role", force, expired, "skipped", NoError, self,
                             [cache0 |-> cache, keyring0 |-> keyring, ncalls0 |-> 0])
               /\ frame' = [NoFrame EXCEPT !.ctx = "role", !.self = self, !.force = force,
                                           !.loaded = self, !.given = self0]
               /\ pc' = "done"
          ELSE /\ ret' = NoRet
               /\ frame' = [NoFrame EXCEPT !.ctx = "role", !.self = self, !.force = force,
                                           !.loaded = self, !.given = self0,
                                           !.selfExpired = expired, !.url = self.start_url,
                                           !.selfEntry = [cache0 |-> cache, keyring0 |-> keyring,
                                                          ncalls0 |-> 0]]
               /\ pc' = "registration"
    /\ calls' = <<>>
    /\ sleeps' = <<>>
    /\ UNCHANGED <<now, keyring, cache, ad, lastSet, aux>>

\* the answers of sso get_role_credentials; expiration is in milliseconds
GetRoleCredentialsResponses ==
    { [ok |-> TRUE, accessKeyId |-> "AK1", secretAccessKey |-> "SK1",
       sessionToken |-> "ST1", expiration |-> (now + 1) * 1000],
      [ok |-> FALSE, accessKeyId |-> "", secretAccessKey |-> "",
       sessionToken |-> "", expiration |-> 0] }

\* AWSSSORoleCredentials.renew(force), from get_role_credentials on
SSORoleRenewFinish ==
    /\ pc = "client"
    /\ frame.ctx = "role"
    /\ \E r \in GetRoleCredentialsResponses :
       LET self    == frame.self
           request == Call("get_role_credentials",
                           [accessToken |-> frame.authorization.access_token,
                            accountId |-> self.account_id, roleName |-> self.role_name])
           primary == [self EXCEPT !.access_key_id = r.accessKeyId,
                                   !.secret_access_key = r.secretAccessKey,
                                   !.session_token = r.sessionToken,
                                   !.expiration_timestamp = r.expiration \div 1000]
       IN IF ~r.ok
          THEN /\ calls' = Append(calls, request)
               /\ ret' = Ret("sso_role", frame.force, frame.selfExpired, "raised",
                             Error("ClientError", "get_role_credentials", ""), self,
                             frame.selfEntry)
               /\ UNCHANGED <<cache, keyring, frame>>
          ELSE \E a \in MaybeAssumeRole(primary) :
               /\ calls' = Append(calls, request) \o a.calls
               /\ frame' = [frame EXCEPT !.self = a.self]
               /\ IF a.ok
                  THEN /\ cache' = WriteCredentials(cache, a.self)
                       /\ keyring' = Save(cache')
                       /\ ret' = Ret("sso_role", frame.force, frame.selfExpired, "renewed",
                                     NoError, a.self, frame.selfEntry)
                  ELSE /\ ret' = Ret("sso_role", frame.force, frame.selfExpired, "raised",
                                     a.error, a.self, frame.selfEntry)
                       /\ UNCHANGED <<cache, keyring>>
    /\ pc' = "done"
    /\ UNCHANGED <<now, sleeps, ad, lastSet, aux>>

(* ------------------------- util.url_has_domain ------------------------ *)

\* urllib.parse.urlparse(url).hostname, on the URLs of the model
Hostname(url) ==
    CASE url = "https://corp.okta.com/app/aws/sso/saml" -> "corp.okta.com"
      [] url = "https://sso.jumpcloud.com/saml2/aws" -> "sso.jumpcloud.com"
      [] url = "https://idp.example.org/saml" -> "idp.example.org"
      [] OTHER -> NoneVal

\* the domains a host is a sub-domain of, itself included
ParentDomains(host) ==
    CASE host = "login.corp.okta.com" -> {"login.corp.okta.com", "corp.okta.com", "okta.com", "com"}
      [] host = "corp.okta.com" -> {"corp.okta.com", "okta.com", "com"}
      [] host = "sso.jumpcloud.com" -> {"sso.jumpcloud.com", "jumpcloud.com", "com"}
      [] host = "idp.example.org" -> {"idp.example.org", "example.org", "org"}
      [] OTHER -> {host}

\* a comparison that also accepts the hosts below the domain
url_has_domain_suffix(url, domain) == domain \in ParentDomains(Hostname(url))

\* a comparison that accepts every URL
url_has_domain_any(url, domain) == TRUE

\* util.url_has_domain: `urlparse(url).hostname == domain`
url_has_domain(url, domain) == Hostname(url) = domain

(* ----------------------- http.SAMLAssertion(Attributes) --------------- *)

RoleValue == "arn:aws:iam::123456789012:role/Test,arn:aws:iam::123456789012:saml-provider/Example"

OtherRoleValue == "arn:aws:iam::123456789012:role/Other,arn:aws:iam::123456789012:saml-provider/Example"

Attribute(name, values) == [name |-> name, values |-> values]

\* a SAML response: whether it has an AttributeStatement, and the statement's
\* Attribute children, each with the texts of its AttributeValue children
Assertion(b64, hasStatement, attributes) ==
    [b64encoded |-> b64, hasStatement |-> hasStatement, attributes |-> attributes]

Assertions ==
    { Assertion("A0", FALSE, <<>>),
      Assertion("A1", TRUE, <<>>),
      Assertion("A2", TRUE, <<Attribute("uid", <<"test">>)>>),
      Assertion("A3", TRUE, <<Attribute("uid", <<"test">>),
                              Attribute(ROLE_ATTR, <<RoleValue, OtherRoleValue>>)>>),
      Assertion("A4", TRUE, <<Attribute(ROLE_ATTR, <<RoleValue>>),
                              Attribute(DURATION_ATTR, <<"3600">>)>>),
      Assertion("A5", TRUE, <<Attribute(ROLE_ATTR, <<RoleValue>>),
                              Attribute(DURATION_ATTR, <<"one hour">>)>>),
      Assertion("A6", TRUE, <<Attribute(ROLE_ATTR, <<>>),
                              Attribute(DURATION_ATTR, <<"3600">>)>>) }

\* the truth value of an xml.etree Element: it has children
ElementTruthy(children) == Len(children) > 0

\* SAMLAssertionAttributes.__getitem__: the list of values, or KeyError
AttrsGetItem(assertion, k) ==
    IF ~(assertion.hasStatement /\ ElementTruthy(assertion.attributes))
    THEN [raised |-> "", values |-> <<>>]
    ELSE LET found == { i \in 1..Len(assertion.attributes) : assertion.attributes[i].name = k }
         IN IF found = {}
            THEN [raised |-> "KeyError", values |-> <<>>]
            ELSE LET attr == assertion.attributes[CHOOSE i \in found : \A j \in found : i <= j]
                 IN IF ~ElementTruthy(attr.values)
                    THEN [raised |-> "KeyError", values |-> <<>>]
                    ELSE [raised |-> "", values |-> attr.values]

\* str.split(",") on the attribute values of the model
SplitComma(v) ==
    CASE v = RoleValue ->
           <<"arn:aws:iam::123456789012:role/Test", "arn:aws:iam::123456789012:saml-provider/Example">>
      [] v = OtherRoleValue ->
           <<"arn:aws:iam::123456789012:role/Other", "arn:aws:iam::123456789012:saml-provider/Example">>
      [] OTHER -> <<v>>

\* int(v) on the attribute values of the model: the number, or ValueError
ParseInt(v) == IF v = "3600" THEN [raised |-> "", value |-> 3600]
               ELSE [raised |-> "ValueError", value |-> 0]

(* ----------------------- plugin.saml_request hook --------------------- *)

\* the plugins implementing saml_request, in the order pluggy calls them
\* (last registered first)
HookOrder == <<"okta", "jumpcloud">>

\* the domain a plugin compares the URL's host with
ProviderDomain(p, oktaDomain) == IF p = "okta" THEN oktaDomain ELSE JUMPCLOUD_SSO_DOMAIN

\* what the environment answers a plugin that handles the URL: its
\* authentication (get_okta_client / get_jumpcloud_client) and its SAML page
ProviderAnswers ==
    { [auth |-> "unconfigured", assertion |-> Assertion("", FALSE, <<>>)],
      [auth |-> "rejected", assertion |-> Assertion("", FALSE, <<>>)],
      [auth |-> "ok", assertion |-> Assertion("", FALSE, <<>>)] }
    \cup { [auth |-> "ok", assertion |-> a] : a \in Assertions }

\* a plugin's saml_request(url): None when the URL is not its own, else the
\* assertion its client fetches, or the exception raised on the way
PluginSamlRequest(p, url, oktaDomain, answer) ==
    IF ~url_has_domain(url, ProviderDomain(p, oktaDomain))
    THEN [result |-> "none", calls |-> <<>>, assertion |-> answer.assertion, error |-> NoError]
    ELSE IF answer.auth = "unconfigured"
    THEN [result |-> "raised", calls |-> <<>>, assertion |-> answer.assertion,
          error |-> Error("ClickException", "plugin is not configured", p)]
    ELSE IF answer.auth = "rejected"
    THEN [result |-> "raised", calls |-> <<Call("authn", [provider |-> p])>>,
          assertion |-> answer.assertion,
          error |-> Error("ClickException", "authentication failed", p)]
    ELSE IF answer.assertion.b64encoded = ""
    THEN [result |-> "raised",
          calls |-> <<Call("authn", [provider |-> p]),
                      Call("saml_request", [provider |-> p, url |-> url])>>,
          assertion |-> answer.assertion,
          error |-> Error("Exception", "SAML response not found", "")]
    ELSE [result |-> "assertion",
          calls |-> <<Call("authn", [provider |-> p]),
                      Call("saml_request", [provider |-> p, url |-> url])>>,
          assertion |-> answer.assertion, error |-> NoError]

\* manager.hook.saml_request(url=url) with firstresult=True: the plugins are
\* called in order from the i-th on, up to the first result that is not None
RECURSIVE saml_request(_, _, _, _)
saml_request(i, url, oktaDomain, answer) ==
    IF i > Len(HookOrder)
    THEN [result |-> "none", calls |-> <<>>, assertion |-> answer.assertion, error |-> NoError]
    ELSE LET r == PluginSamlRequest(HookOrder[i], url, oktaDomain, answer)
         IN IF r.result # "none" THEN r ELSE saml_request(i + 1, url, oktaDomain, answer)

(* ----------------------- AWSSAMLRoleCredentials ----------------------- *)

\* the answers of sts assume_role_with_saml
AssumeRoleWithSAMLResponses ==
    { [ok |-> TRUE, AccessKeyId |-> "AK1", SecretAccessKey |-> "SK1",
       SessionToken |-> "ST1", Expiration |-> now + 1],
      [ok |-> FALSE, AccessKeyId |-> "", SecretAccessKey |-> "",
       SessionToken |-> "", Expiration |-> 0] }

\* the arguments of assume_role_with_saml built from the assertion, or the
\* exception building them raises
AssumeRoleWithSAMLArgs(assertion) ==
    LET role     == AttrsGetItem(assertion, ROLE_ATTR)
        duration == AttrsGetItem(assertion, DURATION_ATTR)
        parts    == SplitComma(role.values[1])
        base     == [SAMLAssertion |-> assertion.b64encoded,
                     RoleArn |-> parts[1], PrincipalArn |-> parts[2]]
    IN IF role.raised = "KeyError"
       THEN [error |-> Error("KeyError", ROLE_ATTR, ""), args |-> EmptyDict]
       ELSE IF Len(role.values) = 0
       THEN [error |-> Error("AWSPluginError", "No role ARN found in SAML assertion", ""),
             args |-> EmptyDict]
       ELSE IF Len(parts) # 2
       THEN [error |-> Error("ValueError", "unpack", ""), args |-> EmptyDict]
       ELSE IF duration.raised = "KeyError"
       THEN [error |-> Error("KeyError", DURATION_ATTR, ""), args |-> EmptyDict]
       ELSE IF Len(duration.values) = 0
       THEN [error |-> NoError, args |-> base]
       ELSE IF ParseInt(duration.values[1]).raised # ""
       THEN [error |-> Error("ValueError", "int", ""), args |-> EmptyDict]
       ELSE [error |-> NoError,
             args |-> Put(base, "DurationSeconds", ParseInt(duration.values[1]).value)]

\* AWSSAMLRoleCredentials.renew(force)
SAMLRoleRenew(self0, force) ==
    /\ pc = "idle"
    /\ pc' = "done"
    /\ sleeps' = <<>>
    /\ LET self    == load_cached_fields(self0, CredentialsSlot(cache, self0.name))
           expired == IsExpired(self.expiration_timestamp, now)
           entry   == [cache0 |-> cache, keyring0 |-> keyring, ncalls0 |-> 0]
           raised(error, issued, obj) ==
               /\ calls' = issued
               /\ ret' = Ret("saml_role", force, expired, "raised", error, obj, entry)
               /\ UNCHANGED <<cache, keyring>>
           began == [NoFrame EXCEPT !.ctx = "saml", !.self = self, !.force = force,
                                    !.loaded = self, !.given = self0]
       IN IF SkipRenew(force, self, now)
          THEN /\ calls' = <<>>
               /\ ret' = Ret("saml_role", force, expired, "skipped", NoError, self, entry)
               /\ frame' = began
               /\ UNCHANGED <<cache, keyring>>
          ELSE \E oktaDomain \in OktaDomains, answer \in ProviderAnswers :
               LET hook == saml_request(1, self.saml_url, oktaDomain, answer)
                   built == AssumeRoleWithSAMLArgs(hook.assertion)
               IN
               /\ frame' = [began EXCEPT !.oktaDomain = oktaDomain, !.answer = answer]
               /\ IF hook.result = "raised"
                  THEN raised(hook.error, hook.calls, self)
                  ELSE IF hook.result = "none"
                  THEN raised(Error("AWSPluginError",
                                    "No plugins responded for SAML application URL: ",
                                    self.saml_url), hook.calls, self)
                  ELSE IF built.error # NoError
                  THEN raised(built.error, hook.calls, self)
                  ELSE   \E r \in AssumeRoleWithSAMLResponses :
                         LET request == Call("assume_role_with_saml",
                                             [client |-> [endpoint_url |->
                                                 IF Truthy(self.sts_endpoint)
                                                 THEN self.sts_endpoint ELSE NoneVal],
                                              args |-> built.args])
                             primary == [self EXCEPT !.access_key_id = r.AccessKeyId,
                                                     !.secret_access_key = r.SecretAccessKey,
                                                     !.session_token = r.SessionToken,
                                                     !.expiration_timestamp = r.Expiration]
                         IN IF ~r.ok
                            THEN raised(Error("ClientError", "assume_role_with_saml", ""),
                                        Append(hook.calls, request), self)
                            ELSE \E a \in MaybeAssumeRole(primary) :
                                 IF a.ok
                                 THEN /\ calls' = Append(hook.calls, request) \o a.calls
                                      /\ cache' = WriteCredentials(cache, a.self)
                                      /\ keyring' = Save(cache')
                                      /\ ret' = Ret("saml_role", force, expired, "renewed",
                                                    NoError, a.self, entry)
                                 ELSE raised(a.error, Append(hook.calls, request) \o a.calls,
                                             a.self)
    /\ UNCHANGED <<now, ad, lastSet, aux>>

(* ---------------------------- the commands ---------------------------- *)

\* aws authorize-sso: registration and authorization are both forced
AuthorizeSSO(url) == SSOClientBegin(url, TRUE, TRUE)

\* aws ls-sso-roles: neither is forced
LsSSORoles(url) == SSOClientBegin(url, FALSE, FALSE)

\* aws add-sso NAME: a new entity, renew(force=True)
AddSSO(name, url, sec) == SSORoleRenewBegin(NewSSORoleCredentials(name, url, sec), TRUE)

\* aws exec / aws export NAME [--rotate]: the stored entity, renew(force=rotate)
Exec(name, rotate) ==
    /\ name \in StoredNames(Load(keyring))
    /\ LET credentials == Credentials(Load(keyring), name)
       IN IF credentials.variant = "AWSSSORoleCredentials"
          THEN SSORoleRenewBegin(credentials.fields, rotate)
          ELSE SAMLRoleRenew(credentials.fields, rotate)

\* aws add-saml NAME: a new entity, renew(force=True)
AddSAML(name, url, sec) == SAMLRoleRenew(NewSAMLRoleCredentials(name, url, sec), TRUE)

(* ------------------------------ AWSData ------------------------------- *)

\* the names under which the store commands save credentials
StoreNames == {"dev", "prod"}

\* role credentials of both classes, new and issued, with and without a
\* secondary role
StoreCredentials ==
    LET issued(c) == [c EXCEPT !.access_key_id = "AK1", !.secret_access_key = "SK1",
                               !.session_token = "ST1", !.expiration_timestamp = 5]
        new == { Instance("AWSSSORoleCredentials",
                          NewSSORoleCredentials(n, "https://a.awsapps.com/start#/", sec))
                   : n \in StoreNames, sec \in { <<NoneVal, NoneVal>>, <<SecondaryRole, "ext">> } }
               \cup
               { Instance("AWSSAMLRoleCredentials",
                          NewSAMLRoleCredentials(n, "https://sso.jumpcloud.com/saml2/aws", sec))
                   : n \in StoreNames, sec \in { <<NoneVal, NoneVal>>, <<SecondaryRole, "ext">> } }
    IN new \cup { Instance(c.variant, issued(c.fields)) : c \in new }

\* a store that files the credentials under their own name field
PutCredentials_by_own_name(data, name, v) ==
    Put(data, "credentials", Put(Get(data, "credentials", EmptyDict), v.fields.name, asdict(v)))

\* self.setdefault("credentials", {})[name] = dataclasses.asdict(v)
PutCredentials(data, name, v) ==
    Put(data, "credentials", Put(Get(data, "credentials", EmptyDict), name, asdict(v)))

\* AWSData(): a new handle loads the keyring entry
NewAWSData ==
    /\ ad' = Load(keyring)
    /\ UNCHANGED <<now, keyring, cache, pc, frame, calls, sleeps, ret, lastSet, aux>>

\* AWSData.set_credentials(name, v)
SetCredentials(name, v) ==
    /\ ad' = PutCredentials(ad, name, v)
    /\ keyring' = Save(ad')
    /\ lastSet' = [NoSet EXCEPT !.name = name, !.v = v]
    /\ UNCHANGED <<now, cache, pc, frame, calls, sleeps, ret, aux>>

\* AWSData.rm_credentials(name); KeyError when the name is not stored
RmCredentials(name) ==
    /\ name \in StoredNames(ad)
    /\ ad' = Put(ad, "credentials", Del(ad["credentials"], name))
    /\ keyring' = Save(ad')
    /\ lastSet' = NoSet
    /\ UNCHANGED <<now, cache, pc, frame, calls, sleeps, ret, aux>>

\* the names `aws mv` is given
MvNames == StoreNames \cup {"dev/renamed"}

\* the record after mv_credentials: set_credentials(new_name,
\* self.credentials(current_name)), then rm_credentials(current_name)
MvData(data, current_name, new_name) ==
    LET set == PutCredentials(data, new_name, Credentials(data, current_name))
    IN Put(set, "credentials", Del(set["credentials"], current_name))

\* AWSData.mv_credentials(current_name, new_name); KeyError when
\* current_name is not stored. Kept for the record: the names, the record
\* and the entry before the call, and how it ended
MvCredentials(current_name, new_name) ==
    /\ LET moved(out, error) ==
               [NoSet EXCEPT !.op = "mv", !.current_name = current_name,
                             !.new_name = new_name, !.ad0 = ad, !.keyring0 = keyring,
                             !.out = out, !.error = error]
       IN IF current_name \in StoredNames(ad)
          THEN /\ ad' = MvData(ad, current_name, new_name)
               /\ keyring' = Save(ad')
               /\ lastSet' = moved("returned", NoError)
          ELSE /\ lastSet' = moved("raised", Error("KeyError", current_name, ""))
               /\ UNCHANGED <<ad, keyring>>
    /\ UNCHANGED <<now, cache, pc, frame, calls, sleeps, ret, aux>>

NextStore ==
    \/ NewAWSData
    \/ \E name \in StoreNames, v \in StoreCredentials : SetCredentials(name, v)
    \/ \E name \in StoreNames : RmCredentials(name)

SpecStore == Init /\ [][NextStore]_vars

\* the store with `aws mv` among its commands
NextMv ==
    \/ NextStore
    \/ \E current_name, new_name \in MvNames : MvCredentials(current_name, new_name)

SpecMv == Init /\ [][NextMv]_vars

Moved == lastSet.op = "mv"

\* the same thing, or nothing, is stored under a name in both records
SameUnder(data, other, name) ==
    IF name \in StoredNames(other)
    THEN name \in StoredNames(data) /\ Credentials(data, name) = Credentials(other, name)
    ELSE name \notin StoredNames(data)

\* C40: after mv_credentials(cur, new) returns, credentials(new) is what was
\* stored under cur before the call (cur = new included) and every other
\* stored credential is unchanged, in the record and in the keyring; when cur
\* is not stored the call raises KeyError and changes nothing
C40_MoveKeepsCredentialUnderNewName ==
    Moved =>
        IF lastSet.current_name \in StoredNames(lastSet.ad0)
        THEN /\ lastSet.out = "returned"
             /\ \A data \in {ad, Load(keyring)} :
                    /\ lastSet.new_name \in StoredNames(data)
                    /\ Credentials(data, lastSet.new_name)
                           = Credentials(lastSet.ad0, lastSet.current_name)
                    /\ \A name \in MvNames \ {lastSet.current_name, lastSet.new_name} :
                           SameUnder(data, lastSet.ad0, name)
        ELSE /\ lastSet.out = "raised"
             /\ lastSet.error.type = "KeyError"
             /\ ad = lastSet.ad0
             /\ keyring = lastSet.keyring0

\* the same with cur = new left out: holds, with the moved credential found
\* under the new name only
C40_MoveToAnotherName ==
    (Moved /\ lastSet.current_name # lastSet.new_name) =>
        /\ C40_MoveKeepsCredentialUnderNewName
        /\ lastSet.out = "returned" => lastSet.current_name \notin StoredNames(ad)

\* a credential moved onto its own name, with another credential stored
C40_Witness ==
    /\ Moved
    /\ lastSet.out = "returned"
    /\ lastSet.current_name = lastSet.new_name
    /\ StoredNames(lastSet.ad0) = {"dev", "prod"}


Return ==
    /\ pc = "done"
    /\ pc' = "idle"
    /\ frame' = NoFrame
    /\ calls' = <<>>
    /\ sleeps' = <<>>
    /\ ret' = NoRet
    /\ UNCHANGED <<now, keyring, cache, ad, lastSet, aux>>

Next ==
    \/ Tick
    \/ \E url \in StartUrls : AuthorizeSSO(url)
    \/ \E url \in StartUrls : LsSSORoles(url)
    \/ RegistrationRenew
    \/ AuthorizationRenewBegin
    \/ \E answer \in CreateTokenAnswers : CreateToken(answer)
    \/ SSOClientDone
    \/ \E name \in Names, url \in StartUrls, sec \in SecondaryArgs : AddSSO(name, url, sec)
    \/ \E name \in Names, rotate \in BOOLEAN : Exec(name, rotate)
    \/ SSORoleRenewFinish
    \/ \E name \in Names, url \in SamlUrls, sec \in SecondaryArgs : AddSAML(name, url, sec)
    \/ Return

Spec == Init /\ [][Next]_vars

(* --------------------------- provider clients ------------------------- *)

\* at most MaxWaits WAITING answers are given to one factor verification
MaxWaits == 2

\* a request of a provider client: the endpoint, the session it is sent with
\* and what it carries
Req(url, session, data) == [url |-> url, session |-> session, data |-> data]

\* the locals of a client call: the client's session, the requests it has
\* issued, the prompts shown and the sleeps taken, and how it ended
Run(session) ==
    [session |-> session, reqs |-> <<>>, prompts |-> <<>>, naps |-> 0,
     out |-> "running", error |-> NoError, result |-> ""]

Send(run, url, data) == [run EXCEPT !.reqs = Append(@, Req(url, run.session, data))]

Raise(run, type, msg) == [run EXCEPT !.out = "raised", !.error = Error(type, msg, "")]

Returns(run, result) == [run EXCEPT !.out = "returned", !.result = result]

\* what is posted to the authentication endpoint
LoginData(rec, user) == [user |-> Get(rec, user, ""), password |-> Get(rec, "password", "")]

(* ------------------------------ OktaClient ---------------------------- *)

\* OktaClientSession()
NoOktaSession == [id |-> "", refresh_url |-> ""]

\* the sessions the Okta sessions endpoint creates
OktaSessions ==
    { [id |-> i, refresh_url |-> "https://corp.okta.com/api/v1/sessions/me/lifecycle/refresh"] :
        i \in {"SID1", "SID2"} }

\* OktaData.session: OktaClientSession(**self.get("session", {}))
OktaDataSession(rec) == Get(rec, "session", NoOktaSession)

\* the factors Okta offers
OktaFactor(id, type) == [id |-> id, factorType |-> type, provider |-> "OKTA"]

OktaFactorLists ==
    { <<OktaFactor("f1", "push")>>,
      <<OktaFactor("f2", "token:software:totp")>>,
      <<OktaFactor("f1", "push"), OktaFactor("f2", "token:software:totp")>>,
      <<OktaFactor("f1", "push"), OktaFactor("f3", "web"), OktaFactor("f4", "u2f")>> }

\* OktaClient.session_create
OktaSessionCreate(run, env) ==
    LET sent == Send(run, "sessions", "sessionToken")
    IN IF env.create = "nostatus"
       THEN Raise(sent, "KeyError", "status")
       ELSE IF env.create = "ACTIVE"
       THEN [sent EXCEPT !.session = env.issued]
       ELSE sent

OktaAuthn_posts_first(run, lazy, rec, env) ==
    LET posted == Send(run, "authn", LoginData(rec, "username"))
    IN IF env.authn = "MFA_REQUIRED"
       THEN Raise(posted, "OktaMFARequired", "")
       ELSE IF env.authn = "error"
       THEN Raise(posted, "OktaError", "errorCode - errorSummary")
       ELSE Returns(posted, "unresolved")

\* OktaClient.authn(lazy)
OktaAuthn(run, lazy, rec, env) ==
    LET tried  == IF lazy /\ run.session.refresh_url # ""
                  THEN Send(run, "refresh", "")
                  ELSE run
        reused == lazy /\ run.session.refresh_url # "" /\ env.refresh = "ok"
        posted == Send(tried, "authn", LoginData(rec, "username"))
    IN IF reused
       THEN Returns(tried, "refreshed")
       ELSE IF env.authn = "MFA_REQUIRED"
       THEN Raise(posted, "OktaMFARequired", "")
       ELSE IF env.authn = "SUCCESS"
       THEN LET created == OktaSessionCreate(posted, env)
            IN IF created.out = "raised" THEN created ELSE Returns(created, "authenticated")
       ELSE IF env.authn = "error"
       THEN Raise(posted, "OktaError", "errorCode - errorSummary")
       ELSE Returns(posted, "unresolved")

(* ------------------------- okta: prompts, MFA ------------------------- *)

\* the answers a selection prompt accepts for n choices: a button of the
\* dialog, or click.IntRange(min=0, max=n)
AcceptedChoices(n, gui) == IF gui THEN 0..(n - 1) ELSE 0..n

\* plugins.okta.prompt_mfa(factors, gui): the factor chosen (Python indexes
\* from 0), with the prompt shown, if any
OktaPromptMfa_always_prompts(run, factors, gui, choice) ==
    LET shown == [run EXCEPT !.prompts =
                     Append(@, IF gui THEN "gui.choose: MFA choice" ELSE "click.prompt: MFA choice")]
    IN IF choice + 1 \in DOMAIN factors
       THEN [run |-> shown, factor |-> factors[choice + 1]]
       ELSE [run |-> Raise(shown, "IndexError", "list index out of range"),
             factor |-> OktaFactor("", "")]

OktaPromptMfa(run, factors, gui, choice) ==
    IF Len(factors) = 1
    THEN [run |-> run, factor |-> factors[1]]
    ELSE LET shown == [run EXCEPT !.prompts =
                          Append(@, IF gui THEN "gui.choose: MFA choice" ELSE "click.prompt: MFA choice")]
         IN IF choice + 1 \in DOMAIN factors
            THEN [run |-> shown, factor |-> factors[choice + 1]]
            ELSE [run |-> Raise(shown, "IndexError", "list index out of range"),
                  factor |-> OktaFactor("", "")]

PasscodeFactors ==
    {"call", "email", "sms", "token", "token:hardware", "token:hotp", "token:software:totp"}

\* plugins.okta.prompt_factor_args(factor_type, gui)
OktaPromptFactorArgs(run, type, gui) ==
    LET asked == [run EXCEPT !.prompts = Append(@, IF gui THEN "gui.prompt" ELSE "click.prompt")]
    IN IF type \in PasscodeFactors THEN [run |-> asked, args |-> "passCode"]
       ELSE IF type \in {"push", "web"} THEN [run |-> run, args |-> ""]
       ELSE IF type = "question" THEN [run |-> asked, args |-> "answer"]
       ELSE [run |-> Raise(run, "ClickException", "Unknown or unimplemented Okta factor type"),
             args |-> ""]

\* one request of the loop of OktaClient.verify(mfa_response, factor_id,
\* factor_args), the i-th, and what follows the provider's answer to it;
\* token is mfa_response["stateToken"]
OktaVerifyOnce_stale_token(run, token, factor, args, i, env) ==
    LET sent == Send(run, "verify", [stateToken |-> "ST1", factor |-> factor.id, args |-> args])
    IN IF env.verify = "WAITING"
       THEN [sent EXCEPT !.naps = @ + 1]
       ELSE IF env.verify = "SUCCESS" /\ env.create = "ACTIVE"
       THEN Returns([Send(sent, "sessions", "sessionToken") EXCEPT !.session = env.issued],
                    "verified")
       ELSE Raise(sent, "OktaError", "MFA verification failed")

OktaVerifyOnce_no_sleep(run, token, factor, args, i, env) ==
    LET sent == Send(run, "verify", [stateToken |-> token, factor |-> factor.id, args |-> args])
    IN IF env.verify = "WAITING"
       THEN sent
       ELSE IF env.verify = "SUCCESS" /\ env.create = "ACTIVE"
       THEN Returns([Send(sent, "sessions", "sessionToken") EXCEPT !.session = env.issued],
                    "verified")
       ELSE Raise(sent, "OktaError", "MFA verification failed")

OktaVerifyOnce(run, token, factor, args, i, env) ==
    LET sent   == Send(run, "verify", [stateToken |-> token, factor |-> factor.id, args |-> args])
        viaDuo == IF factor.factorType = "web" /\ i = 1
                  THEN [sent EXCEPT !.prompts = Append(@, "duo")]
                  ELSE sent
    IN IF env.verify = "WAITING"
       THEN [viaDuo EXCEPT !.naps = @ + 1]
       ELSE IF env.verify = "nostatus"
       THEN Raise(viaDuo, "KeyError", "status")
       ELSE IF env.verify = "SUCCESS"
       THEN LET created == OktaSessionCreate(viaDuo, env)
            IN IF created.out = "raised" THEN created ELSE Returns(created, "verified")
       ELSE Raise(viaDuo, "OktaError", "MFA verification failed")

\* the record is configured: `okta_data.domain and okta_data.username and
\* okta_data.password`
OktaConfigured(rec) ==
    /\ Get(rec, "domain", "") # ""
    /\ Get(rec, "username", "") # ""
    /\ Get(rec, "password", "") # ""

\* OktaData.session = v: `if v: self["session"] = dataclasses.asdict(v)`,
\* `elif "session" in self: del self["session"]`, then save()
SetSession_drops(rec, v, truthy) == rec

SetSession_clears_record(rec, v, truthy) ==
    IF truthy THEN Put(rec, "session", v) ELSE EmptyDict

SetSession(rec, v, truthy) ==
    IF truthy THEN Put(rec, "session", v)
    ELSE IF "session" \in DOMAIN rec THEN Del(rec, "session")
    ELSE rec

(* ---------------------------- JumpCloudClient ------------------------- *)

\* JumpCloudClientSession()
NoJumpCloudSession == [cookie |-> "", xsrf |-> ""]

\* the sessions the xsrf endpoint hands out
JumpCloudSessions == { [cookie |-> "COOKIE" \o k, xsrf |-> "XSRF" \o k] : k \in {"1", "2"} }

\* JumpCloudData.session
JumpCloudDataSession(rec) == Get(rec, "session", NoJumpCloudSession)

JumpCloudFactor(type, status) == [type |-> type, status |-> status]

JumpCloudFactorLists ==
    { <<JumpCloudFactor("totp", "available")>>,
      <<JumpCloudFactor("totp", "available"), JumpCloudFactor("duo", "unavailable")>>,
      <<JumpCloudFactor("totp", "available"), JumpCloudFactor("duo", "available")>>,
      <<JumpCloudFactor("webauthn", "available"), JumpCloudFactor("duo", "unavailable")>> }

\* JumpCloudClient.xsrf
JumpCloudXsrf(run, env) == [Send(run, "xsrf", "") EXCEPT !.session = env.issued]

\* JumpCloudClient.auth(lazy)
JumpCloudAuth(run, lazy, rec, env) ==
    LET tried  == IF lazy THEN Send(run, "self", "") ELSE run
        posted == Send(JumpCloudXsrf(tried, env), "auth", LoginData(rec, "email"))
    IN IF lazy /\ env.self = "ok"
       THEN Returns(tried, "reused")
       ELSE IF env.auth = "mfa" THEN Raise(posted, "JumpCloudMFARequired", "")
       ELSE IF env.auth = "error" THEN Raise(posted, "JumpCloudError", "message")
       ELSE Returns(posted, "authenticated")

\* `[f for f in factors if f["status"] == "available"]`
RECURSIVE Available(_)
Available(factors) ==
    IF factors = <<>> THEN <<>>
    ELSE IF Head(factors).status = "available"
    THEN <<Head(factors)>> \o Available(Tail(factors))
    ELSE Available(Tail(factors))

\* plugins.jumpcloud.prompt_mfa(factors, gui)
JumpCloudPromptMfa(run, factors, gui, choice) ==
    LET offered == Available(factors)
        shown   == [run EXCEPT !.prompts =
                       Append(@, IF gui THEN "gui.choose: MFA choice" ELSE "click.prompt: MFA choice")]
    IN IF Len(offered) = 1
       THEN [run |-> run, factor |-> offered[1]]
       ELSE IF choice + 1 \in DOMAIN offered
       THEN [run |-> shown, factor |-> offered[choice + 1]]
       ELSE [run |-> Raise(shown, "IndexError", "list index out of range"),
             factor |-> JumpCloudFactor("", "")]

\* plugins.jumpcloud.prompt_factor_args(factor_type, gui)
JumpCloudPromptFactorArgs(run, type, gui) ==
    IF type = "totp"
    THEN [run |-> [run EXCEPT !.prompts = Append(@, IF gui THEN "gui.prompt" ELSE "click.prompt")],
          args |-> "otp"]
    ELSE IF type = "duo" THEN [run |-> run, args |-> ""]
    ELSE [run |-> Raise(run, "ClickException", "Unknown or unimplemented JumpCloud factor type"),
          args |-> ""]

\* JumpCloudClient.auth_totp(otp) / auth_duo()
JumpCloudAuthFactor(run, type, env) ==
    LET sent == IF type = "totp"
                THEN Send(run, "auth_totp", "otp")
                ELSE [Send(run, "auth_duo", "") EXCEPT !.prompts = Append(@, "duo")]
    IN IF env.mfa = "ok"
       THEN Returns(sent, "verified")
       ELSE Raise(sent, "JumpCloudError", "MFA verification failed")

JumpCloudConfigured(rec) == Get(rec, "email", "") # "" /\ Get(rec, "password", "") # ""

(* ------------------------ provider configuration ---------------------- *)

\* no client call is in progress after a command; kept with it are the
\* command run, the record it found and its options
Commanded(cmd, rec, given, rm_session, rm) ==
    [provider |-> "none", stage |-> "idle", cmd |-> cmd, rec0 |-> rec,
     given |-> given, rm_session |-> rm_session, rm |-> rm]

\* `athm okta`: --rm deletes the record; else --domain, --username and
\* --password (when given) are set, and --rm-session clears the session
OktaCommand(domain, username, password, rm_session, rm) ==
    /\ auth.stage \in {"idle", "ended"}
    /\ LET d == IF domain # "" THEN Put(oktaRec, "domain", domain) ELSE oktaRec
           u == IF username # "" THEN Put(d, "username", username) ELSE d
           p == IF password # "" THEN Put(u, "password", password) ELSE u
           s == IF rm_session THEN SetSession(p, EmptyDict, FALSE) ELSE p
       IN oktaRec' = IF rm THEN EmptyDict ELSE s
    /\ auth' = Commanded("okta", oktaRec, {domain, username, password} # {""}, rm_session, rm)
    /\ UNCHANGED <<core, ext, conc, jcRec>>

\* `athm jumpcloud`
JumpCloudCommand(email, password, rm_session, rm) ==
    /\ auth.stage \in {"idle", "ended"}
    /\ LET e == IF email # "" THEN Put(jcRec, "email", email) ELSE jcRec
           p == IF password # "" THEN Put(e, "password", password) ELSE e
           s == IF rm_session THEN SetSession(p, EmptyDict, FALSE) ELSE p
       IN jcRec' = IF rm THEN EmptyDict ELSE s
    /\ auth' = Commanded("jumpcloud", jcRec, {email, password} # {""}, rm_session, rm)
    /\ UNCHANGED <<core, ext, conc, oktaRec>>

(* ------------------ entities built from given values ------------------ *)

\* a value of the command line or of a caller: given, or empty
Given(v) == {"", v}

\* AWSSSORoleCredentials(name, start_url, account_id, role_name).renew(force)
ConstructSSORole(name, url, account_id, role_name, force) ==
    LET self    == [NewSSORoleCredentials(name, url, <<NoneVal, NoneVal>>) EXCEPT
                       !.account_id = account_id, !.role_name = role_name]
        missing == PostInit("AWSSSORoleCredentials", self)
    IN IF missing = <<>>
       THEN SSORoleRenewBegin(self, force)
       ELSE /\ pc = "idle"
            /\ pc' = "done"
            /\ ret' = ConstructionFailed("sso_role", force, self, missing)
            /\ frame' = [NoFrame EXCEPT !.ctx = "role", !.force = force]
            /\ calls' = <<>>
            /\ sleeps' = <<>>
            /\ UNCHANGED <<now, keyring, cache, ad, lastSet, aux>>

\* AWSSAMLRoleCredentials(name, saml_url).renew(force)
ConstructSAMLRole(name, url, force) ==
    LET self    == NewSAMLRoleCredentials(name, url, <<NoneVal, NoneVal>>)
        missing == PostInit("AWSSAMLRoleCredentials", self)
    IN IF missing = <<>>
       THEN SAMLRoleRenew(self, force)
       ELSE /\ pc = "idle"
            /\ pc' = "done"
            /\ ret' = ConstructionFailed("saml_role", force, self, missing)
            /\ frame' = [NoFrame EXCEPT !.ctx = "saml", !.force = force]
            /\ calls' = <<>>
            /\ sleeps' = <<>>
            /\ UNCHANGED <<now, keyring, cache, ad, lastSet, aux>>

NextEntity ==
    \/ \E name \in Given("dev"), url \in Given("https://a.awsapps.com/start#/"),
          account_id \in Given("123456789012"), role_name \in Given("TestRole"),
          force \in BOOLEAN :
          ConstructSSORole(name, url, account_id, role_name, force)
    \/ \E name \in Given("dev"), url \in Given("https://corp.okta.com/app/aws/sso/saml"),
          force \in BOOLEAN :
          ConstructSAMLRole(name, url, force)
    \/ \E url \in Given("https://a.awsapps.com/start#/"), force \in BOOLEAN :
          SSOClientBegin(url, force, force)
    \/ RegistrationRenew
    \/ AuthorizationRenewBegin
    \/ \E answer \in CreateTokenAnswers : CreateToken(answer)
    \/ SSOClientDone
    \/ SSORoleRenewFinish
    \/ Return

SpecEntity == Init /\ [][NextEntity]_vars

(* ------------------- sessions of several organizations ---------------- *)

\* the start URLs of two organizations
OrgStartUrls == StartUrls \cup {"https://b.awsapps.com/start#/"}

\* authorize-sso and ls-sso-roles against either organization
NextSso ==
    \/ Tick
    \/ \E url \in OrgStartUrls : AuthorizeSSO(url)
    \/ \E url \in OrgStartUrls : LsSSORoles(url)
    \/ RegistrationRenew
    \/ AuthorizationRenewBegin
    \/ \E answer \in CreateTokenAnswers : CreateToken(answer)
    \/ SSOClientDone
    \/ Return

SpecSso == Init /\ [][NextSso]_vars

(* ------------------ get_okta_client, get_jumpcloud_client ------------- *)

\* no answer: the call ended before its first request
NoAnswer == [refresh |-> "", authn |-> "", self |-> "", auth |-> ""]

\* the client call in progress: the record it was built from, the session it
\* started with, its locals, the provider's answer to its authentication,
\* the factors that answer offered, the factor being verified and the
\* provider's latest answer to its verification
Client(provider, stage, rec, session0, run, factor, args) ==
    [provider |-> provider, stage |-> stage, rec0 |-> rec, session0 |-> session0,
     run |-> run, factor |-> factor, args |-> args, env |-> NoAnswer,
     factors |-> <<>>, last |-> NoAnswer]

\* a client call that writes the session however it ends
Persisted_always(rec, run) == SetSession(rec, run.session, TRUE)

\* the record after the client call: `data.session = client.session` when
\* the call comes to its end with a client
Persisted(rec, run) ==
    IF run.out = "returned" /\ run.result # "None"
    THEN SetSession(rec, run.session, TRUE)
    ELSE rec

\* the answers of the sessions endpoint: the session it creates when it
\* answers ACTIVE
SessionAnswers ==
    { [create |-> "ACTIVE", issued |-> s] : s \in OktaSessions }
    \cup { [create |-> c, issued |-> NoOktaSession] : c \in {"other", "nostatus"} }

\* the state tokens of the transactions Okta opens: an MFA_REQUIRED answer
\* carries one, with the factors offered (response["_embedded"]["factors"])
StateTokens == {"ST1", "ST2"}

\* the answers to OktaClient.authn(lazy=True)
OktaAuthnAnswers ==
    { [refresh |-> "ok", authn |-> "", create |-> "", issued |-> NoOktaSession] }
    \cup { [refresh |-> "denied", authn |-> "MFA_REQUIRED", create |-> "",
            issued |-> NoOktaSession, stateToken |-> t, factors |-> f] :
             t \in StateTokens, f \in OktaFactorLists }
    \cup { [refresh |-> "denied", authn |-> a, create |-> "", issued |-> NoOktaSession] :
             a \in {"error", "other"} }
    \cup { [refresh |-> "denied", authn |-> "SUCCESS", create |-> s.create, issued |-> s.issued] :
             s \in SessionAnswers }

\* get_okta_client(fail_unconfigured), up to the end of client.authn(lazy=True)
GetOktaClient(fail_unconfigured) ==
    /\ auth.stage \in {"idle", "ended"}
    /\ LET session0 == OktaDataSession(oktaRec)
           begun    == Run(session0)
           ends(run) ==
               /\ auth' = Client("okta", "ended", oktaRec, session0, run, OktaFactor("", ""), "")
               /\ oktaRec' = Persisted(oktaRec, run)
       IN IF ~OktaConfigured(oktaRec)
          THEN IF fail_unconfigured
               THEN ends(Raise(begun, "ClickException", "Okta plugin is not configured"))
               ELSE ends(Returns(begun, "None"))
          ELSE \E env \in { e \in OktaAuthnAnswers :
                                e.refresh = "ok" => session0.refresh_url # "" } :
               LET run == OktaAuthn(begun, TRUE, oktaRec, env)
                   answered(stage, r) ==
                       [Client("okta", stage, oktaRec, session0, r, OktaFactor("", ""), "")
                          EXCEPT !.env = env]
               IN IF run.out = "raised" /\ run.error.type = "OktaMFARequired"
                  THEN /\ auth' = answered("mfa", run)
                       /\ UNCHANGED oktaRec
                  ELSE LET r == IF run.out = "raised" /\ run.error.type = "OktaError"
                                THEN Raise(run, "ClickException", run.error.msg)
                                ELSE run
                       IN /\ auth' = answered("ended", r)
                          /\ oktaRec' = Persisted(oktaRec, r)
    /\ UNCHANGED <<core, ext, conc, jcRec>>

\* get_okta_client: `except OktaMFARequired`, prompt_mfa and prompt_factor_args
OktaChooseFactor ==
    /\ auth.provider = "okta"
    /\ auth.stage = "mfa"
    /\ \E gui \in BOOLEAN :
       \E choice \in IF Len(auth.env.factors) = 1 THEN {0}
                     ELSE AcceptedChoices(Len(auth.env.factors), gui) :
          LET factors == auth.env.factors
              caught == [auth.run EXCEPT !.out = "running"]
              chosen == OktaPromptMfa(caught, factors, gui, choice)
              asked  == OktaPromptFactorArgs(chosen.run, chosen.factor.factorType, gui)
          IN IF chosen.run.out = "raised"
             THEN auth' = [auth EXCEPT !.stage = "ended", !.run = chosen.run,
                                       !.factors = factors]
             ELSE IF asked.run.out = "raised"
             THEN auth' = [auth EXCEPT !.stage = "ended", !.run = asked.run,
                                       !.factor = chosen.factor, !.factors = factors]
             ELSE auth' = [auth EXCEPT !.stage = "verify", !.run = asked.run,
                                       !.factor = chosen.factor, !.args = asked.args,
                                       !.factors = factors]
    /\ UNCHANGED <<core, ext, conc, oktaRec, jcRec>>

\* the answers to one verification request
OktaVerifyAnswers ==
    { [verify |-> v, create |-> "", issued |-> NoOktaSession] :
        v \in {"WAITING", "REJECTED", "nostatus"} }
    \cup { [verify |-> "SUCCESS", create |-> s.create, issued |-> s.issued] : s \in SessionAnswers }

\* get_okta_client: one turn of the loop of e.client.verify, and after its
\* last turn the write of the session
OktaVerify ==
    /\ auth.provider = "okta"
    /\ auth.stage = "verify"
    /\ \E env \in OktaVerifyAnswers :
          /\ env.verify = "WAITING" => auth.run.naps < MaxWaits
          /\ LET run == OktaVerifyOnce(auth.run, auth.env.stateToken, auth.factor, auth.args,
                                        auth.run.naps + 1, env)
             IN /\ auth' = [auth EXCEPT !.run = run, !.last = env,
                                        !.stage = IF run.out = "running" THEN "verify" ELSE "ended"]
                /\ oktaRec' = Persisted(oktaRec, run)
    /\ UNCHANGED <<core, ext, conc, jcRec>>

\* the answers to JumpCloudClient.auth(lazy=True)
JumpCloudAuthAnswers ==
    { [self |-> "ok", auth |-> "", issued |-> NoJumpCloudSession] }
    \cup { [self |-> s, auth |-> a, issued |-> i] :
             s \in {"login", "denied"}, a \in {"ok", "mfa", "error"}, i \in JumpCloudSessions }

\* get_jumpcloud_client(fail_unconfigured), up to the end of client.auth(lazy=True)
GetJumpCloudClient(fail_unconfigured) ==
    /\ auth.stage \in {"idle", "ended"}
    /\ LET session0 == JumpCloudDataSession(jcRec)
           begun    == Run(session0)
           ends(run) ==
               /\ auth' = Client("jumpcloud", "ended", jcRec, session0, run,
                                 JumpCloudFactor("", ""), "")
               /\ jcRec' = Persisted(jcRec, run)
       IN IF ~JumpCloudConfigured(jcRec)
          THEN IF fail_unconfigured
               THEN ends(Raise(begun, "ClickException", "JumpCloud plugin is not configured"))
               ELSE ends(Returns(begun, "None"))
          ELSE \E env \in JumpCloudAuthAnswers :
               LET run == JumpCloudAuth(begun, TRUE, jcRec, env)
                   answered(stage, r) ==
                       [Client("jumpcloud", stage, jcRec, session0, r, JumpCloudFactor("", ""), "")
                          EXCEPT !.env = env]
               IN IF run.out = "raised" /\ run.error.type = "JumpCloudMFARequired"
                  THEN /\ auth' = answered("mfa", run)
                       /\ UNCHANGED jcRec
                  ELSE LET r == IF run.out = "raised" /\ run.error.type = "JumpCloudError"
                                THEN Raise(run, "ClickException", run.error.msg)
                                ELSE run
                       IN /\ auth' = answered("ended", r)
                          /\ jcRec' = Persisted(jcRec, r)
    /\ UNCHANGED <<core, ext, conc, oktaRec>>

\* get_jumpcloud_client: `except JumpCloudMFARequired`, prompt_mfa and
\* prompt_factor_args
JumpCloudChooseFactor ==
    /\ auth.provider = "jumpcloud"
    /\ auth.stage = "mfa"
    /\ \E factors \in JumpCloudFactorLists, gui \in BOOLEAN :
       \E choice \in IF Len(Available(factors)) = 1 THEN {0}
                     ELSE AcceptedChoices(Len(Available(factors)), gui) :
          LET caught == [auth.run EXCEPT !.out = "running"]
              chosen == JumpCloudPromptMfa(caught, factors, gui, choice)
              asked  == JumpCloudPromptFactorArgs(chosen.run, chosen.factor.type, gui)
          IN IF chosen.run.out = "raised"
             THEN auth' = [auth EXCEPT !.stage = "ended", !.run = chosen.run,
                                       !.factors = factors]
             ELSE IF asked.run.out = "raised"
             THEN auth' = [auth EXCEPT !.stage = "ended", !.run = asked.run,
                                       !.factor = chosen.factor, !.factors = factors]
             ELSE auth' = [auth EXCEPT !.stage = "verify", !.run = asked.run,
                                       !.factor = chosen.factor, !.args = asked.args,
                                       !.factors = factors]
    /\ UNCHANGED <<core, ext, conc, oktaRec, jcRec>>

\* get_jumpcloud_client: e.client.auth_totp / auth_duo, and after it the write
\* of the session
JumpCloudVerify ==
    /\ auth.provider = "jumpcloud"
    /\ auth.stage = "verify"
    /\ \E mfa \in {"ok", "failed"} :
          LET run == JumpCloudAuthFactor(auth.run, auth.factor.type, [mfa |-> mfa])
          IN /\ auth' = [auth EXCEPT !.run = run, !.stage = "ended"]
             /\ jcRec' = Persisted(jcRec, run)
    /\ UNCHANGED <<core, ext, conc, oktaRec>>

\* the command lines of the model: (user, password, --rm-session, --rm)
ConfigOptions ==
    { <<"user", "", FALSE, FALSE>>, <<"user", "secret", FALSE, FALSE>>,
      <<"", "", TRUE, FALSE>>, <<"", "", FALSE, TRUE>> }

NextIdp ==
    \/ \E o \in ConfigOptions :
          OktaCommand(IF o[1] = "" THEN "" ELSE "corp.okta.com", o[1], o[2], o[3], o[4])
    \/ \E o \in ConfigOptions : JumpCloudCommand(o[1], o[2], o[3], o[4])
    \/ \E fail_unconfigured \in BOOLEAN : GetOktaClient(fail_unconfigured)
    \/ OktaChooseFactor
    \/ OktaVerify
    \/ \E fail_unconfigured \in BOOLEAN : GetJumpCloudClient(fail_unconfigured)
    \/ JumpCloudChooseFactor
    \/ JumpCloudVerify

SpecIdp == Init /\ [][NextIdp]_vars

(* ------------------------------ plugin.py ----------------------------- *)

\* pkgutil.iter_modules over the built-in plugins directory
BuiltinModules == <<"authum.plugins.aws", "authum.plugins.jumpcloud", "authum.plugins.okta">>

\* the modules named authum-* that pkgutil.iter_modules finds on sys.path
ExternalModules == { <<>>, <<"authum-extra">>, <<"authum-extra", "authum-zeta">> }

\* the functions a plugin module marks with hookimpl; the external modules
\* are an identity provider that lists its applications and a plugin that
\* only extends the command line
HookImpls(m) ==
    IF m = "authum.plugins.aws" THEN {"extend_cli"}
    ELSE IF m = "authum.plugins.okta" THEN {"extend_cli", "list_apps", "saml_request"}
    ELSE IF m = "authum.plugins.jumpcloud" THEN {"extend_cli", "get_apps", "saml_request"}
    ELSE IF m = "authum-extra" THEN {"get_apps"}
    ELSE {"extend_cli"}

\* the hook functions that list a provider's applications
ListingHooks == {"list_apps", "get_apps"}

Range(s) == { s[i] : i \in DOMAIN s }

Reverse(s) == [i \in 1..Len(s) |-> s[Len(s) + 1 - i]]

\* `[manager.register(importlib.import_module(m)) for m in module_names]`:
\* the modules registered before the first import that raises
RECURSIVE Imported(_, _)
Imported(module_names, broken) ==
    IF module_names = <<>> THEN <<>>
    ELSE IF Head(module_names) \in broken THEN <<>>
    ELSE <<Head(module_names)>> \o Imported(Tail(module_names), broken)

\* load_plugins(), at the import of authum.cli; `broken` are the modules
\* whose import raises
LoadPlugins(external, broken) ==
    /\ LET module_names == BuiltinModules \o external
           registered   == Imported(module_names, broken)
       IN /\ broken \subseteq Range(module_names)
          /\ plug' = [NoPlug EXCEPT
                        !.op = "load_plugins",
                        !.modules = module_names,
                        !.broken = broken,
                        !.registered = registered,
                        !.out = IF Len(registered) = Len(module_names)
                                THEN "returned" ELSE "raised",
                        !.error = IF Len(registered) = Len(module_names) THEN NoError
                                  ELSE Error("ImportError", module_names[Len(registered) + 1], "")]
    /\ UNCHANGED <<core, idp, conc, stored, item>>

\* what a provider's listing meets: no configuration, a refused
\* authentication, a client whose provider has applications or has none
ListingAnswers == {"unconfigured", "denied", "apps", "none"}

\* authum.http.SAMLApplication(name, url)
SAMLApplication(name, url) == [name |-> name, url |-> url]

\* the applications a provider's client returns
Applications(m) ==
    IF m = "authum.plugins.okta" THEN <<SAMLApplication("Okta App", "https://corp.okta.com/app/1")>>
    ELSE IF m = "authum.plugins.jumpcloud"
    THEN <<SAMLApplication("JumpCloud App", "https://sso.jumpcloud.com/saml2/1")>>
    ELSE <<SAMLApplication("Extra App", "https://idp.example.com/app/1")>>

\* plugins.okta.list_apps, plugins.jumpcloud.get_apps and an external
\* provider's get_apps: [] without a client, the exception of
\* get_*_client(fail_unconfigured=False), else the applications; Okta's builds
\* them with authum.http.SSOApplication, which authum.http does not define
Listing(m, answer) ==
    IF answer = "unconfigured" THEN [raised |-> FALSE, error |-> NoError, value |-> <<>>]
    ELSE IF answer = "denied"
    THEN [raised |-> TRUE, error |-> Error("ClickException", m, ""), value |-> <<>>]
    ELSE IF answer = "none" THEN [raised |-> FALSE, error |-> NoError, value |-> <<>>]
    ELSE IF m = "authum.plugins.okta"
    THEN [raised |-> TRUE, error |-> Error("AttributeError", "SSOApplication", ""), value |-> <<>>]
    ELSE [raised |-> FALSE, error |-> NoError, value |-> Applications(m)]

\* the implementations pluggy calls for `manager.hook.<hook>()`: those of
\* the registered plugins that define a hookimpl of that name, last
\* registered first
HookImplsOf(hook, registered) ==
    LET Implements(m) == hook \in HookImpls(m)
    IN Reverse(SelectSeq(registered, Implements))

\* pluggy's call of a hook without firstresult: the results are collected
\* in call order; an exception of an implementation ends the loop and is
\* raised to the caller of the hook
RECURSIVE Multicall(_, _, _)
Multicall(impls, answers, acc) ==
    IF impls = <<>> THEN acc
    ELSE LET m == Head(impls)
             r == Listing(m, answers[m])
         IN IF r.raised
            THEN [acc EXCEPT !.raised = TRUE, !.error = r.error, !.invoked = Append(@, m)]
            ELSE Multicall(Tail(impls), answers,
                           [acc EXCEPT !.results = Append(@, r.value), !.invoked = Append(@, m)])

\* functools.reduce(list.__add__, results)
RECURSIVE Concat(_)
Concat(results) ==
    IF results = <<>> THEN <<>> ELSE Head(results) \o Concat(Tail(results))

\* the registered plugins that list applications, under either hook name
Providers(registered) == { m \in Range(registered) : HookImpls(m) \cap ListingHooks # {} }

\* cli.apps: `functools.reduce(list.__add__, manager.hook.get_apps())`
Apps ==
    /\ plug.op = "load_plugins"
    /\ plug.out = "returned"
    /\ \E answers \in [Providers(plug.registered) -> ListingAnswers] :
       LET impls  == HookImplsOf("get_apps", plug.registered)
           called == Multicall(impls, answers,
                               [raised |-> FALSE, error |-> NoError, invoked |-> <<>>,
                                results |-> <<>>])
       IN plug' = [plug EXCEPT
                     !.op = "apps",
                     !.answers = answers,
                     !.invoked = called.invoked,
                     !.out = IF impls = <<>> \/ called.raised THEN "raised" ELSE "returned",
                     !.error = IF impls = <<>> THEN Error("AttributeError", "get_apps", "")
                               ELSE called.error,
                     !.result = IF called.raised THEN <<>> ELSE Concat(called.results)]
    /\ UNCHANGED <<core, idp, conc, stored, item>>

NextPlugin ==
    \/ \E external \in ExternalModules :
       \E broken \in SUBSET Range(BuiltinModules \o external) : LoadPlugins(external, broken)
    \/ Apps

SpecPlugin == Init /\ [][NextPlugin]_vars

(* ------------------- persistence.KeyringItem, by name ----------------- *)

\* texts on which json.loads raises JSONDecodeError
UndecodableTexts == {"", "not json", "{'foo': "}

RawText(s) == [kind |-> "text", text |-> s]

ItemKeys == {"foo", "baz"}

ItemValues == {"bar", "qux"}

\* the mappings a KeyringItem of the model holds
ItemDicts == UNION { [ks -> ItemValues] : ks \in SUBSET ItemKeys }

\* what the keyring service may hold under (authum, name)
StoredEntries ==
    {KeyringAbsent} \cup { RawText(s) : s \in UndecodableTexts }
                    \cup { JsonDumps(d) : d \in ItemDicts }

\* keyring.get_password(service, name): None when there is no entry
GetPassword(e) == IF e.kind = "absent" THEN [kind |-> "None"] ELSE e

Str_of_text_only(v) == v

\* str(v): v when it is text, the text "None" for None
Str(v) == IF v.kind = "None" THEN RawText("None") ELSE v

\* json.loads(v): the decoded value; JSONDecodeError on text that is not
\* JSON (as "None" is not), TypeError on None
JsonLoads(v) ==
    IF v.kind = "json" THEN [raised |-> "", value |-> v.text]
    ELSE IF v.kind = "text" THEN [raised |-> "JSONDecodeError", value |-> EmptyDict]
    ELSE [raised |-> "TypeError", value |-> EmptyDict]

\* KeyringItem.load on _data = data: `except json.decoder.JSONDecodeError: pass`
KeyringItemLoad(data, e) ==
    LET r == JsonLoads(Str(GetPassword(e)))
    IN IF r.raised = "" THEN [data |-> r.value, error |-> NoError]
       ELSE IF r.raised = "JSONDecodeError" THEN [data |-> data, error |-> NoError]
       ELSE [data |-> data, error |-> Error(r.raised, "", "")]

\* the call `op` on the handle ended, leaving _data = data; entry0 and
\* entry1 are the entry before and after a call that reads or writes it
Ended(op, data, error) ==
    [NoItem EXCEPT !.op = op, !.data = data, !.error = error,
                   !.out = IF error = NoError THEN "returned" ELSE "raised"]

\* another process, or `keyring set` / `keyring del`, writes the entry
SetPassword(e) ==
    /\ e # stored
    /\ stored' = e
    /\ UNCHANGED <<core, idp, conc, plug, item>>

\* KeyringItem(name, initial): `self.update(initial) if initial else self.load()`
NewKeyringItem(initial) ==
    /\ LET loaded == KeyringItemLoad(EmptyDict, stored)
           built  == IF initial # EmptyDict
                     THEN Ended("__init__", initial, NoError)
                     ELSE Ended("__init__", loaded.data, loaded.error)
       IN item' = [built EXCEPT !.initial = initial, !.entry0 = stored, !.entry1 = stored]
    /\ UNCHANGED <<core, idp, conc, plug, stored>>

\* a handle exists: its construction returned
Constructed == item.op # "none" /\ ~(item.op = "__init__" /\ item.out = "raised")

\* KeyringItem.__setitem__(k, v)
SetItem(k, v) ==
    /\ Constructed
    /\ item' = Ended("__setitem__", Put(item.data, k, v), NoError)
    /\ UNCHANGED <<core, idp, conc, plug, stored>>

\* KeyringItem.__delitem__(k)
DelItem(k) ==
    /\ Constructed
    /\ item' = IF k \in DOMAIN item.data
               THEN Ended("__delitem__", Del(item.data, k), NoError)
               ELSE Ended("__delitem__", item.data, Error("KeyError", k, ""))
    /\ UNCHANGED <<core, idp, conc, plug, stored>>

\* KeyringItem.save(); entry0 is the entry it overwrites
SaveItem ==
    /\ Constructed
    /\ stored' = JsonDumps(item.data)
    /\ item' = [Ended("save", item.data, NoError) EXCEPT !.entry0 = stored, !.entry1 = stored']
    /\ UNCHANGED <<core, idp, conc, plug>>

\* what keyring.delete_password raises when there is no entry: the
\* backend's PasswordDeleteError with its message, or, with the backend of
\* tests/conftest.py, the KeyError of `del {}[username]`
AbsentDeleteErrors ==
    { Error("PasswordDeleteError", "Password not found", ""),
      Error("PasswordDeleteError", "No such password!", ""),
      Error("KeyError", "username", "") }

\* `"not found" in str(e)`
MentionsNotFound(msg) == msg \in {"Password not found", "Item not found"}

\* KeyringItem.delete(): `except keyring.errors.PasswordDeleteError as e:
\* if "not found" not in str(e): raise`; _data is not touched
DeleteItem ==
    /\ Constructed
    /\ IF stored.kind # "absent"
       THEN /\ stored' = KeyringAbsent
            /\ item' = [Ended("delete", item.data, NoError)
                         EXCEPT !.entry0 = stored, !.entry1 = KeyringAbsent]
       ELSE /\ \E e \in AbsentDeleteErrors :
                 item' = [Ended("delete", item.data,
                                IF e.type = "PasswordDeleteError" /\ MentionsNotFound(e.msg)
                                THEN NoError ELSE e)
                            EXCEPT !.entry0 = stored]
            /\ UNCHANGED stored
    /\ UNCHANGED <<core, idp, conc, plug>>

NextKeyring ==
    \/ \E e \in StoredEntries : SetPassword(e)
    \/ \E initial \in ItemDicts : NewKeyringItem(initial)
    \/ \E k \in ItemKeys, v \in ItemValues : SetItem(k, v)
    \/ \E k \in ItemKeys : DelItem(k)
    \/ SaveItem
    \/ DeleteItem

SpecKeyring == Init /\ [][NextKeyring]_vars

(* ============================ properties ============================== *)

\* the calls issued by the renew() that ended in the last step
RenewCalls == SubSeq(calls, ret.ncalls0 + 1, Len(calls))

Issued(api) == \E i \in DOMAIN RenewCalls : RenewCalls[i].api = api

\* the cache slot of the entity whose renew() ended in the last step
RetSlot ==
    CASE ret.kind = "registration" -> RegistrationSlot(cache)
      [] ret.kind = "authorization" -> AuthorizationSlot(cache, ret.self.start_url)
      [] OTHER -> CredentialsSlot(cache, ret.self.name)

\* the first and the last provider call of each entity's renewal protocol
FirstProtocolCall ==
    CASE ret.kind = "registration" -> "register_client"
      [] ret.kind = "authorization" -> "start_device_authorization"
      [] ret.kind = "sso_role" -> "get_role_credentials"
      [] OTHER -> "assume_role_with_saml"

LastProtocolCall ==
    CASE ret.kind = "registration" -> "register_client"
      [] ret.kind = "authorization" -> "create_token"
      [] ret.kind = "sso_role" -> "get_role_credentials"
      [] OTHER -> "assume_role_with_saml"

\* C1: renew(force=False) of an entity (registration, authorization, SSO role
\* credentials, SAML role credentials) that is not expired after load() issues
\* no provider or network call and leaves the cache and the keyring entry as
\* they were.
C1_FreshEntityIsNotRenewed ==
    (ret.kind # "none" /\ ~ret.force /\ ~ret.expired) =>
        /\ ret.outcome = "skipped"
        /\ RenewCalls = <<>>
        /\ cache = ret.cache0
        /\ keyring = ret.keyring0

\* C1's case: the device authorization loaded from the cache is still valid
\* and its unforced renew has returned
C1_Witness ==
    /\ ret.kind = "authorization"
    /\ ~ret.force
    /\ ~ret.expired
    /\ ret.self.access_token = "ACCESSTOKEN"

\* C2: renew(force=True) never returns early, whatever the entity's TTL: it
\* starts the entity's provider protocol (for SAML role credentials, the
\* saml_request dispatch), and when the protocol completes the entity's cache
\* slot holds the renewed entity and the cache has been saved.
C2_ForcedRenewalRuns ==
    (ret.kind # "none" /\ ret.force) =>
        /\ ret.outcome # "skipped"
        /\ IF ret.kind = "saml_role"
           THEN frame.oktaDomain \in OktaDomains
           ELSE Issued(FirstProtocolCall)
        /\ ret.outcome = "renewed" =>
              /\ Issued(LastProtocolCall)
              /\ RetSlot = ret.self
              /\ keyring.kind = "json"
              /\ Load(keyring) = cache

\* C2's case: a forced renew of SSO role credentials that were not expired has
\* completed
C2_Witness ==
    /\ ret.kind = "sso_role"
    /\ ret.force
    /\ ~ret.expired
    /\ ret.outcome = "renewed"

\* the interval before the i-th sleep of the running device flow
IntervalBefore(i) == IF i = 1 THEN frame.dictated ELSE sleeps[i - 1]

\* the answers of the running device flow that kept the loop going
NonTerminal(answer) == answer \in {"pending", "slow_down"}

\* C3: in the device-authorization poll loop the interval starts at the
\* interval the provider dictated and never decreases: after an
\* "authorization pending" answer the loop sleeps the interval it had, after a
\* "slow down" answer a strictly larger one.
C3_PollIntervalMonotone ==
    /\ Len(sleeps) <= Len(frame.answers)
    /\ \A i \in DOMAIN sleeps :
          /\ frame.answers[i] = "pending" => sleeps[i] = IntervalBefore(i)
          /\ frame.answers[i] = "slow_down" => sleeps[i] > IntervalBefore(i)
          /\ sleeps[i] >= IntervalBefore(i)
    /\ pc = "polling" =>
          frame.interval = IntervalBefore(Len(sleeps) + 1)

\* C3's case: the answers pending, pending, slow_down, success
C3_Witness ==
    /\ frame.answers = <<"pending", "pending", "slow_down", "success">>
    /\ Len(sleeps) = 3
    /\ sleeps[3] > sleeps[2]

\* C4: the poll loop goes on after every "authorization pending" and "slow
\* down" answer and ends at the first other answer; when that answer is an
\* error the renewal fails with the access token, the authorization slot and
\* the keyring entry as they were.
C4_PollLoopEnds ==
    LET a == frame.answers
    IN /\ \A i \in 1..(Len(a) - 1) : NonTerminal(a[i])
       /\ pc = "polling" => \A i \in DOMAIN a : NonTerminal(a[i])
       /\ (a # <<>> /\ NonTerminal(a[Len(a)])) => pc = "polling"
       /\ Len(sleeps) = Cardinality({ i \in DOMAIN a : NonTerminal(a[i]) })
       /\ (a # <<>> /\ a[Len(a)] = "error") =>
             /\ pc = "done"
             /\ ret.kind = "authorization"
             /\ ret.outcome = "raised"
             /\ ret.self.access_token =
                   Get(AuthorizationSlot(ret.cache0, frame.url), "access_token", "")
             /\ cache = ret.cache0
             /\ keyring = ret.keyring0

\* C4's case: an error answer ends a flow that had a token cached, after a
\* pending and a slow-down answer
C4_Witness ==
    /\ frame.answers = <<"pending", "slow_down", "error">>
    /\ ret.kind = "authorization"
    /\ ret.outcome = "raised"
    /\ AuthorizationSlot(cache, frame.url) # EmptyDict

\* the providers whose domain is the host of the URL of the SAML renewal that
\* ended in the last step
Matching ==
    { p \in {"okta", "jumpcloud"} :
        Hostname(frame.self.saml_url) = ProviderDomain(p, frame.oktaDomain) }

\* the providers that were asked to authenticate or to fetch the SAML page
Contacted ==
    { calls[i].args.provider : i \in { j \in DOMAIN calls : calls[j].api \in {"authn", "saml_request"} } }

SamlRenewalRan == ret.kind = "saml_role" /\ ret.outcome # "skipped"

\* C5: SAML dispatch: only a provider whose domain equals the host of the URL
\* authenticates and fetches the assertion; a provider whose domain differs
\* (a parent or a sub-domain included) is never contacted, and the exchange
\* uses the assertion of the provider that claimed the URL.
C5_OnlyTheMatchingProviderActs ==
    SamlRenewalRan =>
        /\ Contacted \subseteq Matching
        /\ \A p \in Matching :
              frame.answer.auth # "unconfigured" =>
                  /\ calls # <<>>
                  /\ calls[1] = Call("authn", [provider |-> p])
        /\ \A p \in Matching :
              frame.answer.auth = "ok" =>
                  /\ Len(calls) >= 2
                  /\ calls[2] = Call("saml_request",
                                     [provider |-> p, url |-> frame.self.saml_url])
        /\ Issued("assume_role_with_saml") =>
              /\ Matching # {}
              /\ calls[3].api = "assume_role_with_saml"
              /\ calls[3].args.args.SAMLAssertion = frame.answer.assertion.b64encoded

\* C5's case: the URL is JumpCloud's while the Okta domain is a parent of its
\* host; JumpCloud alone authenticated and the renewal completed
C5_Witness ==
    /\ SamlRenewalRan
    /\ ret.outcome = "renewed"
    /\ Hostname(frame.self.saml_url) = "sso.jumpcloud.com"
    /\ frame.oktaDomain = "jumpcloud.com"
    /\ Contacted = {"jumpcloud"}

\* C6: when no provider claims the URL the renewal fails with the
\* AWSPluginError "No plugins responded for SAML application URL" naming the
\* URL, no provider or STS call is made, and the cache and the keyring entry
\* are as they were.
C6_UnclaimedUrlFails ==
    (SamlRenewalRan /\ Matching = {}) =>
        /\ ret.outcome = "raised"
        /\ ret.error = Error("AWSPluginError",
                             "No plugins responded for SAML application URL: ",
                             frame.self.saml_url)
        /\ calls = <<>>
        /\ cache = ret.cache0
        /\ keyring = ret.keyring0

\* C6's case: a URL on a host below the Okta domain, which no provider claims
C6_Witness ==
    /\ SamlRenewalRan
    /\ Matching = {}
    /\ Hostname(frame.self.saml_url) = "corp.okta.com"
    /\ frame.oktaDomain = "login.corp.okta.com"
    /\ ret.error.type = "AWSPluginError"

\* the assertion the provider returned to the SAML renewal that ended in the
\* last step
Returned == frame.answer.assertion

\* the returned assertion has an attribute statement with an attribute `k`
HasAttribute(k) ==
    /\ Returned.hasStatement
    /\ \E i \in DOMAIN Returned.attributes : Returned.attributes[i].name = k

\* the values of the attribute `k` of the returned assertion
AttributeValues(k) ==
    LET found == { i \in DOMAIN Returned.attributes : Returned.attributes[i].name = k }
    IN IF ~HasAttribute(k)
       THEN <<>>
       ELSE Returned.attributes[CHOOSE i \in found : \A j \in found : i <= j].values

\* a provider returned an assertion to the SAML renewal that ended in the last
\* step
AssertionReturned ==
    /\ SamlRenewalRan
    /\ Matching # {}
    /\ frame.answer.auth = "ok"
    /\ Returned.b64encoded # ""

\* C7: with an assertion carrying the role attribute, the exchange is issued
\* with RoleArn and PrincipalArn the two halves of the first role value, and
\* with DurationSeconds exactly when the session-duration attribute is present
\* and an integer; when it is absent or not an integer the exchange is still
\* issued, without DurationSeconds.
C7_ExchangeArguments ==
    (AssertionReturned /\ HasAttribute(ROLE_ATTR) /\ AttributeValues(ROLE_ATTR) # <<>>) =>
        LET parts == SplitComma(AttributeValues(ROLE_ATTR)[1])
            d     == AttributeValues(DURATION_ATTR)
        IN /\ Issued("assume_role_with_saml")
           /\ LET args == calls[3].args.args
              IN /\ args.RoleArn = parts[1]
                 /\ args.PrincipalArn = parts[2]
                 /\ ("DurationSeconds" \in DOMAIN args) <=>
                        (d # <<>> /\ ParseInt(d[1]).raised = "")
                 /\ ("DurationSeconds" \in DOMAIN args) =>
                        args.DurationSeconds = ParseInt(d[1]).value

\* C8: when the returned assertion has no role attribute (no attribute
\* statement, or a statement without it) the renewal fails with the
\* AWSPluginError "No role ARN found in SAML assertion", no exchange is issued
\* and the cache and the keyring entry are as they were.
C8_NoRoleAttributeFails ==
    (AssertionReturned /\ ~HasAttribute(ROLE_ATTR)) =>
        /\ ret.outcome = "raised"
        /\ ret.error = Error("AWSPluginError", "No role ARN found in SAML assertion", "")
        /\ ~Issued("assume_role_with_saml")
        /\ cache = ret.cache0
        /\ keyring = ret.keyring0

\* the fields a renewal obtains from the provider
IssuedFields == {"access_key_id", "secret_access_key", "session_token", "expiration_timestamp"}

\* the renewal of role credentials with a secondary role that ended in the
\* last step completed
SecondaryRenewed ==
    /\ ret.kind \in {"sso_role", "saml_role"}
    /\ ret.outcome = "renewed"
    /\ Truthy(ret.self.assume_role_arn)

\* the key triples of the primary exchange of the renewal that ended in the
\* last step
PrimaryTriples ==
    IF ret.kind = "sso_role"
    THEN { <<r.accessKeyId, r.secretAccessKey, r.sessionToken>> :
             r \in { x \in GetRoleCredentialsResponses : x.ok } }
    ELSE { <<r.AccessKeyId, r.SecretAccessKey, r.SessionToken>> :
             r \in { x \in AssumeRoleWithSAMLResponses : x.ok } }

\* C9: with a secondary role ARN set, a completed renewal has issued the
\* primary exchange, then get_caller_identity and assume_role signed with the
\* primary response's keys; the entity's key id, secret, session token and
\* expiration are those of the assume_role response, and its name, provenance
\* fields and secondary-assumption parameters are the ones it was loaded with.
C9_SecondaryRoleAssumed ==
    SecondaryRenewed =>
        LET n        == Len(calls)
            primary  == calls[n - 2]
            identity == calls[n - 1]
            assume   == calls[n]
            signedBy(c) == <<c.args.client.aws_access_key_id,
                             c.args.client.aws_secret_access_key,
                             c.args.client.aws_session_token>>
        IN /\ n >= 3
           /\ primary.api = LastProtocolCall
           /\ identity.api = "get_caller_identity"
           /\ assume.api = "assume_role"
           /\ signedBy(identity) \in PrimaryTriples
           /\ signedBy(assume) \in PrimaryTriples
           /\ assume.args.args.RoleArn = ret.self.assume_role_arn
           /\ \E r \in AssumeRoleResponses :
                 /\ r.ok
                 /\ ret.self.access_key_id = r.AccessKeyId
                 /\ ret.self.secret_access_key = r.SecretAccessKey
                 /\ ret.self.session_token = r.SessionToken
                 /\ ret.self.expiration_timestamp = r.Expiration
           /\ <<ret.self.access_key_id, ret.self.secret_access_key,
                ret.self.session_token>> \notin PrimaryTriples
           /\ \A f \in DOMAIN ret.self \ IssuedFields : ret.self[f] = frame.loaded[f]
           /\ RetSlot = ret.self

\* C9's case: SSO role credentials with a secondary role and an external id
\* have been renewed
C9_Witness ==
    /\ SecondaryRenewed
    /\ ret.kind = "sso_role"
    /\ ret.self.assume_role_external_id = "ext"
    /\ ret.self.access_key_id = "AK2"

\* C10: after set_credentials(n, c), credentials(n) and list_credentials[n]
\* are c, field for field and of c's class, on the handle that stored it and
\* on a handle that loads the keyring entry anew.
C10_CredentialsRoundTrip ==
    lastSet.name # "" =>
        /\ lastSet.name \in StoredNames(ad)
        /\ Credentials(ad, lastSet.name) = lastSet.v
        /\ ListCredentials(ad)[lastSet.name] = lastSet.v
        /\ asdict(Credentials(ad, lastSet.name)) = asdict(lastSet.v)
        /\ Credentials(ad, lastSet.name).variant = lastSet.v.variant
        /\ keyring.kind = "json"
        /\ Credentials(Load(keyring), lastSet.name) = lastSet.v
        /\ ListCredentials(Load(keyring))[lastSet.name] = lastSet.v

\* C10's case: SAML credentials named "dev" were stored under "prod" next to
\* an entry "dev", and a new handle has loaded the entry
C10_Witness ==
    /\ lastSet.name = "prod"
    /\ lastSet.v.variant = "AWSSAMLRoleCredentials"
    /\ lastSet.v.fields.name = "dev"
    /\ lastSet.v.fields.access_key_id = "AK1"
    /\ "dev" \in StoredNames(ad)
    /\ Credentials(ad, "dev").variant = "AWSSSORoleCredentials"

\* the expiration_timestamp, after load(), of the entity whose renew() ended in
\* the last step: the cached one when the entity is constructed without
\* (registration, authorization), else the loaded entity's
LoadedExpiration ==
    CASE ret.kind = "registration" ->
           Get(RegistrationSlot(ret.cache0), "expiration_timestamp", 0)
      [] ret.kind = "authorization" ->
           Get(AuthorizationSlot(ret.cache0, ret.self.start_url), "expiration_timestamp", 0)
      [] OTHER -> frame.loaded.expiration_timestamp

\* C11: an entity whose expiration_timestamp is 0 (never issued: nothing is
\* cached for it either) is expired at every time: its ttl is negative, and
\* an unforced renew of it is not skipped but runs the provider protocol.
C11_NeverIssuedIsExpired ==
    /\ Ttl(0, now) < 0
    /\ IsExpired(0, now)
    /\ (ret.kind # "none" /\ ~ret.force /\ LoadedExpiration = 0) =>
          /\ ret.expired
          /\ ret.outcome # "skipped"
          /\ IF ret.kind = "saml_role"
             THEN frame.oktaDomain \in OktaDomains
             ELSE Issued(FirstProtocolCall)

\* C11's case: ls-sso-roles found no authorization cached for the start URL
\* and obtained a token without being forced to
C11_Witness ==
    /\ ret.kind = "authorization"
    /\ ~ret.force
    /\ AuthorizationSlot(ret.cache0, ret.self.start_url) = EmptyDict
    /\ ret.outcome = "renewed"
    /\ now > 1

\* the positions of the requests of the running client call to one endpoint
Requests(url) == { i \in 1..Len(auth.run.reqs) : auth.run.reqs[i].url = url }

\* the provider's record was configured when the client call began
BegunConfigured ==
    /\ auth.stage # "idle"
    /\ IF auth.provider = "okta" THEN OktaConfigured(auth.rec0) ELSE JumpCloudConfigured(auth.rec0)

\* the provider accepted the session the lazy call began with
SessionAccepted ==
    /\ BegunConfigured
    /\ IF auth.provider = "okta"
       THEN auth.session0.refresh_url # "" /\ auth.env.refresh = "ok"
       ELSE auth.env.self = "ok"

\* C12: a lazy authentication whose cached session the provider still
\* accepts (Okta: refresh answers OK; JumpCloud: self answers OK and not
\* /login) returns having sent the reuse request only, no username or
\* password, with the client's session and the stored record as they were;
\* and wherever the credentials were posted, the reuse attempt came first and
\* failed (for Okta a session without a refresh URL fails without a request).
C12_LazyReuse ==
    /\ SessionAccepted =>
          /\ auth.stage = "ended"
          /\ auth.run.out = "returned"
          /\ auth.run.session = auth.session0
          /\ Requests("authn") = {} /\ Requests("auth") = {} /\ Requests("xsrf") = {}
          /\ \A i \in 1..Len(auth.run.reqs) : auth.run.reqs[i].data = ""
          /\ IF auth.provider = "okta"
             THEN OktaDataSession(oktaRec) = auth.session0
             ELSE JumpCloudDataSession(jcRec) = auth.session0
    /\ (auth.stage # "idle" /\ auth.provider = "okta") =>
          \A i \in Requests("authn") :
             /\ ~SessionAccepted
             /\ \/ auth.session0.refresh_url = "" /\ Requests("refresh") = {}
                \/ auth.run.reqs[1].url = "refresh" /\ i > 1 /\ auth.env.refresh # "ok"
    /\ (auth.stage # "idle" /\ auth.provider = "jumpcloud") =>
          \A i \in Requests("auth") :
             /\ ~SessionAccepted
             /\ auth.run.reqs[1].url = "self" /\ i > 1 /\ auth.env.self # "ok"

C12_Witness ==
    /\ SessionAccepted
    /\ auth.provider = "okta"
    /\ auth.session0 # NoOktaSession
    /\ auth.run.reqs = <<Req("refresh", auth.session0, "")>>
    /\ auth.run.out = "returned"

\* the prompts of factor selection
SelectionPrompts == {"gui.choose: MFA choice", "click.prompt: MFA choice"}

\* the factors among which prompt_mfa selects: for JumpCloud the available ones
Selectable ==
    IF auth.provider = "okta" THEN auth.factors ELSE Available(auth.factors)

\* C13: when exactly one factor is offered (JumpCloud: exactly one
\* available factor), prompt_mfa returns that factor and shows neither the
\* text nor the graphical selection prompt.
C13_SingleFactorNoPrompt ==
    (auth.stage \in {"verify", "ended"} /\ Len(Selectable) = 1) =>
       /\ auth.factor = Selectable[1]
       /\ \A i \in 1..Len(auth.run.prompts) : auth.run.prompts[i] \notin SelectionPrompts

C13_Witness ==
    /\ auth.provider = "okta"
    /\ auth.stage = "verify"
    /\ auth.factors = <<OktaFactor("f2", "token:software:totp")>>
    /\ auth.factor = OktaFactor("f2", "token:software:totp")
    /\ auth.run.prompts = <<"click.prompt">>

\* the client call has ended with a client of the provider
Authenticated(provider) ==
    /\ auth.provider = provider
    /\ auth.stage = "ended"
    /\ auth.run.out = "returned"
    /\ auth.run.result # "None"

\* C14: once get_okta_client / get_jumpcloud_client has returned a client,
\* the provider's stored record holds exactly that client's session (Okta:
\* id and refresh URL; JumpCloud: cookie and XSRF token), and the next
\* client built from the record starts from that session.
C14_SessionPersisted ==
    /\ [](/\ Authenticated("okta") => OktaDataSession(oktaRec) = auth.run.session
          /\ Authenticated("jumpcloud") => JumpCloudDataSession(jcRec) = auth.run.session)
    /\ [][/\ (Authenticated("okta") /\ \E f \in BOOLEAN : GetOktaClient(f))
                => auth'.session0 = auth.run.session
          /\ (Authenticated("jumpcloud") /\ \E f \in BOOLEAN : GetJumpCloudClient(f))
                => auth'.session0 = auth.run.session]_vars

C14_Witness ==
    /\ Authenticated("okta")
    /\ auth.run.result = "verified"
    /\ auth.run.session # auth.session0
    /\ auth.session0 # NoOktaSession
    /\ OktaDataSession(oktaRec) = auth.run.session

\* when the renewal of SSO role credentials that ended in the last step
\* began, the cache held an unexpired registration and an unexpired
\* authorization for the credentials' start URL
CachedSessionValid ==
    /\ ~IsExpired(load_cached_fields(NewRegistration,
                     RegistrationSlot(ret.cache0)).expiration_timestamp, now)
    /\ ~IsExpired(load_cached_fields(NewAuthorization(ret.self.start_url),
                     AuthorizationSlot(ret.cache0, ret.self.start_url)).expiration_timestamp, now)

\* C15: a renewal of SSO role credentials that runs (forced or expired)
\* while the cached registration and the cached authorization of its start
\* URL are unexpired issues no register_client, no
\* start_device_authorization and no create_token: its first call is
\* get_role_credentials with the cached access token, followed at most by
\* the calls of the secondary assumption.
C15_RoleRenewalReusesToken ==
    (ret.kind = "sso_role" /\ ret.outcome # "skipped" /\ CachedSessionValid) =>
       /\ ~Issued("register_client")
       /\ ~Issued("start_device_authorization")
       /\ ~Issued("create_token")
       /\ sleeps = <<>>
       /\ Len(calls) >= 1
       /\ calls[1].api = "get_role_credentials"
       /\ calls[1].args.accessToken =
             AuthorizationSlot(ret.cache0, ret.self.start_url)["access_token"]
       /\ \A i \in 2..Len(calls) : calls[i].api \in {"get_caller_identity", "assume_role"}
       /\ (Len(calls) > 1) => Truthy(ret.self.assume_role_arn)
       /\ RegistrationSlot(cache) = RegistrationSlot(ret.cache0)
       /\ AuthorizationSlot(cache, ret.self.start_url)
             = AuthorizationSlot(ret.cache0, ret.self.start_url)

C15_Witness ==
    /\ ret.kind = "sso_role"
    /\ ret.outcome = "renewed"
    /\ ret.force
    /\ CachedSessionValid
    /\ Len(calls) = 3
    /\ calls[1].args.accessToken = "ACCESSTOKEN"

\* the start URLs other than the one of the authorization whose renew()
\* ended in the last step
OtherStartUrls == OrgStartUrls \ {ret.self.start_url}

\* C16: the authorization is cached per start URL. A renewal for start URL
\* A writes A's slot only: the token and expiry of every other start URL,
\* and the registration stay as they were when it began; and what load()
\* gives the authorization of A is A's slot, whatever the other slots hold.
C16_AuthorizationPerStartUrl ==
    ret.kind = "authorization" =>
       /\ \A u \in OtherStartUrls :
             AuthorizationSlot(cache, u) = AuthorizationSlot(ret.cache0, u)
       /\ RegistrationSlot(cache) = RegistrationSlot(ret.cache0)
       /\ ret.outcome = "renewed" => AuthorizationSlot(cache, ret.self.start_url) = ret.self
       /\ ret.outcome = "skipped" =>
             /\ ret.self = AuthorizationSlot(ret.cache0, frame.url)
             /\ ret.self.start_url = frame.url
       /\ (ret.outcome # "skipped" /\ ~ret.force) =>
             IsExpired(Get(AuthorizationSlot(ret.cache0, frame.url), "expiration_timestamp", 0), now)

C16_Witness ==
    /\ ret.kind = "authorization"
    /\ ret.outcome = "renewed"
    /\ \E u \in OtherStartUrls :
          /\ AuthorizationSlot(ret.cache0, u) # EmptyDict
          /\ ~IsExpired(AuthorizationSlot(ret.cache0, u).expiration_timestamp, now)
          /\ AuthorizationSlot(cache, u).expiration_timestamp # ret.self.expiration_timestamp
          /\ AuthorizationSlot(ret.cache0, ret.self.start_url) = EmptyDict

\* the providers whose listing raised in the apps command that ended last
Raising == { m \in Range(plug.invoked) : Listing(m, plug.answers[m]).raised }

\* C17: the apps command invokes the application listing of every
\* registered identity provider, Okta and JumpCloud alike, and returns the
\* concatenation of what they return.
C17_AppsCallsEveryProvider ==
    (plug.op = "apps" /\ plug.out = "returned") =>
       /\ \A m \in Providers(plug.registered) : m \in Range(plug.invoked)
       /\ \A m \in Providers(plug.registered) :
             \A i \in DOMAIN Listing(m, plug.answers[m]).value :
                Listing(m, plug.answers[m]).value[i] \in Range(plug.result)

\* C18: when one provider raises during the apps broadcast, the
\* applications the other providers return are still returned to the caller.
C18_RaisingProviderDoesNotHideOthers ==
    (plug.op = "apps" /\ Raising # {}) =>
       /\ plug.out = "returned"
       /\ \A m \in Range(HookImplsOf("get_apps", plug.registered)) \ Raising :
             \A i \in DOMAIN Listing(m, plug.answers[m]).value :
                Listing(m, plug.answers[m]).value[i] \in Range(plug.result)

\* C19: when the import or registration of one discovered plugin module
\* fails, the other discovered modules are still imported and registered.
C19_BrokenPluginDoesNotStopLoading ==
    plug.op = "load_plugins" =>
       \A m \in Range(plug.modules) \ plug.broken : m \in Range(plug.registered)

\* C20: constructing a KeyringItem without initial data over an entry that
\* is missing or whose text cannot be decoded does not raise, and the item
\* is then the empty mapping.
C20_UndecodableEntryLoadsEmpty ==
    (item.op = "__init__" /\ item.initial = EmptyDict /\ item.entry0.kind \in {"absent", "text"}) =>
       /\ item.out = "returned"
       /\ item.error = NoError
       /\ item.data = EmptyDict
       /\ DOMAIN item.data = {}

C20_Witness ==
    /\ item.op = "__init__"
    /\ item.initial = EmptyDict
    /\ item.entry0 = RawText("not json")
    /\ stored = item.entry0
    /\ item.out = "returned"

\* no other writer has changed the entry since the item's last call
Undisturbed == stored = item.entry1

\* what a new KeyringItem of the same name holds
Reloaded == KeyringItemLoad(EmptyDict, stored)

\* C21: after save() the stored entry is the whole in-memory mapping: a
\* new handle of the same name loads exactly its keys and values, and a key
\* the overwritten entry held that the mapping no longer holds is gone.
C21_SaveOverwritesWholeRecord ==
    (item.op = "save" /\ Undisturbed) =>
       /\ item.out = "returned"
       /\ Reloaded.error = NoError
       /\ Reloaded.data = item.data
       /\ DOMAIN Reloaded.data = DOMAIN item.data
       /\ \A k \in ItemKeys : k \notin DOMAIN item.data => k \notin DOMAIN Reloaded.data

C21_Witness ==
    /\ item.op = "save"
    /\ item.entry0 = JsonDumps([k \in ItemKeys |-> "bar"])
    /\ item.data = EmptyDict
    /\ Undisturbed
    /\ Reloaded.data = EmptyDict

\* C22: after delete() the item's in-memory mapping is empty, and a new
\* KeyringItem of the same name is empty.
C22_DeleteEmptiesRecord ==
    (item.op = "delete" /\ item.out = "returned" /\ Undisturbed) =>
       /\ item.data = EmptyDict
       /\ Reloaded.data = EmptyDict

\* C23: delete() on an item whose entry is already absent returns normally.
C23_DeleteOfAbsentEntryReturns ==
    (item.op = "delete" /\ item.entry0.kind = "absent") => item.out = "returned"

\* the identity-defining fields of the entity whose call ended in the
\* last step
IdentityFields ==
    IF ret.kind = "authorization" THEN {"start_url"}
    ELSE IF ret.kind = "sso_role" THEN {"name", "start_url", "account_id", "role_name"}
    ELSE {"name", "saml_url"}

\* those of them that are empty
EmptyFields == { f \in IdentityFields : ret.self[f] = "" }

\* the requests a renewal of the entity issues
EntityRequests ==
    IF ret.kind = "authorization" THEN {"start_device_authorization", "create_token"}
    ELSE {"get_role_credentials", "assume_role_with_saml", "get_caller_identity", "assume_role",
          "register_client", "start_device_authorization", "create_token", "saml_request"}

\* C24: an entity (role credentials, SSO or SAML, or a device
\* authorization) built with an empty identity-defining field fails at
\* construction with a ValueError naming missing fields (the name alone
\* when the name is missing, else every missing field of the class), and
\* no renewal request is issued for it; a renewal in progress is that of an
\* entity with all its identity fields.
C24_MissingFieldsFailAtConstruction ==
    /\ (ret.kind \in {"authorization", "sso_role", "saml_role"} /\ EmptyFields # {}) =>
          /\ ret.outcome = "raised"
          /\ ret.error.type = "ValueError"
          /\ "missing" \in DOMAIN ret
          /\ Range(ret.missing) =
                IF "name" \in EmptyFields THEN {"name"} ELSE EmptyFields
          /\ \A i \in DOMAIN calls : i > ret.ncalls0 => calls[i].api \notin EntityRequests
          /\ cache = ret.cache0
    /\ (ret.kind \in {"authorization", "sso_role", "saml_role"} /\ EmptyFields = {}) =>
          "missing" \notin DOMAIN ret
    /\ (frame.ctx = "role" /\ pc \in {"registration", "authorization", "polling", "client"}) =>
          \A f \in {"name", "start_url", "account_id", "role_name"} : frame.self[f] # ""

C24_Witness ==
    /\ ret.kind = "sso_role"
    /\ ret.outcome = "raised"
    /\ ret.self.name = "dev"
    /\ ret.self.start_url = ""
    /\ ret.self.role_name = ""
    /\ ret.self.account_id # ""
    /\ ret.error.type = "ValueError"
    /\ ret.missing = <<"start_url", "role_name">>
    /\ cache # EmptyDict

(* ------------------- okta: outcomes of authentication ------------------ *)

\* OktaClient.authn has posted the credentials and get_okta_client has not
\* gone on to a factor yet
PrimarySubmitted ==
    /\ auth.provider = "okta"
    /\ auth.stage \in {"mfa", "ended"}
    /\ Requests("authn") # {}
    /\ Requests("verify") = {}
    /\ auth.factors = <<>>

\* the call created a session: the sessions endpoint answered ACTIVE to a
\* request that follows the credentials, and the client holds what it issued
SessionEstablished ==
    /\ auth.env.create = "ACTIVE"
    /\ auth.run.session = auth.env.issued
    /\ \E i \in Requests("authn"), j \in Requests("sessions") : i < j

\* C25: once the credentials are posted the authentication ends in one of
\* three ways: a session is established, OktaMFARequired is raised, or an
\* authentication error is raised; it never returns normally without a
\* session established by that call
C25_PrimarySubmissionResolves ==
    PrimarySubmitted =>
        /\ auth.run.out \in {"returned", "raised"}
        /\ auth.run.out = "returned" => SessionEstablished
        /\ auth.run.out = "raised" => auth.run.session = auth.session0

(* ------------------------ okta: the MFA condition ---------------------- *)

\* OktaMFARequired was raised to get_okta_client by the call in progress
MfaRaised ==
    /\ auth.provider = "okta"
    /\ auth.env.authn = "MFA_REQUIRED"

\* the requests that follow the raise: all after the one post of credentials
AfterMfa == { i \in 1..Len(auth.run.reqs) : \A a \in Requests("authn") : a < i }

\* C26: the MFA-required condition is resumable: it carries the offered
\* factors and the live client; verification on that client establishes the
\* session with no further post of username/password, and between the
\* condition and the creation of the session the only requests are
\* verifications carrying the state token of the MFA response
C26_MfaConditionResumable ==
    MfaRaised =>
        /\ Cardinality(Requests("authn")) = 1
        /\ auth.stage = "mfa" =>
              /\ auth.run.error.type = "OktaMFARequired"
              /\ auth.env.factors \in OktaFactorLists
              /\ auth.run.session = auth.session0
        /\ auth.stage \in {"verify", "ended"} =>
              /\ auth.factors = auth.env.factors
              /\ auth.run.out # "raised" \/ auth.run.error.type # "IndexError" =>
                    auth.factor \in Range(auth.factors)
        /\ \A i \in AfterMfa :
              \/ /\ auth.run.reqs[i].url = "verify"
                 /\ auth.run.reqs[i].data.stateToken = auth.env.stateToken
                 /\ auth.run.reqs[i].data.factor = auth.factor.id
              \/ /\ auth.run.reqs[i].url = "sessions"
                 /\ i = Len(auth.run.reqs)
                 /\ i - 1 \in Requests("verify")
        /\ auth.run.result = "verified" =>
              /\ auth.run.out = "returned"
              /\ Requests("sessions") = {Len(auth.run.reqs)}
              /\ auth.last.create = "ACTIVE" =>
                    /\ auth.run.session = auth.last.issued
                    /\ OktaDataSession(oktaRec) = auth.last.issued

\* a second-token transaction verified after a WAITING answer, and the
\* session created
C26_Witness ==
    /\ MfaRaised
    /\ auth.env.stateToken = "ST2"
    /\ auth.run.result = "verified"
    /\ auth.run.naps = 1
    /\ Cardinality(Requests("verify")) = 2
    /\ auth.last.create = "ACTIVE"
    /\ auth.run.session # auth.session0

(* --------------------- okta: the verification loop --------------------- *)

\* e.client.verify has sent a request
Verifying == MfaRaised /\ Requests("verify") # {}

\* C27: while Okta answers WAITING the client sleeps the poll interval and
\* sends the identical verification again; the loop ends at the first
\* answer that is not WAITING, and on SUCCESS exactly one session is created
\* from the session token returned
C27_WaitingIsPolled ==
    Verifying =>
        /\ \A i, j \in Requests("verify") : auth.run.reqs[i] = auth.run.reqs[j]
        /\ \A i, j \in Requests("verify") : \A k \in i..j : k \in Requests("verify")
        /\ auth.stage = "verify" <=> auth.last.verify = "WAITING"
        /\ auth.stage = "verify" =>
              /\ auth.run.out = "running"
              /\ Cardinality(Requests("verify")) = auth.run.naps
        /\ auth.stage = "ended" =>
              /\ auth.run.out \in {"returned", "raised"}
              /\ Cardinality(Requests("verify")) = auth.run.naps + 1
        /\ Cardinality(Requests("sessions")) =
              IF auth.last.verify = "SUCCESS" THEN 1 ELSE 0
        /\ \A s \in Requests("sessions") :
              /\ auth.run.reqs[s].data = "sessionToken"
              /\ s = Len(auth.run.reqs)

\* two WAITING answers, then SUCCESS and the session
C27_Witness ==
    /\ Verifying
    /\ auth.run.naps = MaxWaits
    /\ auth.last.verify = "SUCCESS"
    /\ auth.last.create = "ACTIVE"
    /\ auth.run.session = auth.last.issued
    /\ Cardinality(Requests("verify")) = MaxWaits + 1

\* C28: every answer to a verification that is neither WAITING nor a
\* success, an error payload without a status included, fails the
\* verification with OktaError as an MFA failure, and no session is created
\* or changed
C28_FailedVerificationIsOktaError ==
    (Verifying /\ auth.stage = "ended" /\ auth.last.verify \notin {"WAITING", "SUCCESS"}) =>
        /\ auth.run.out = "raised"
        /\ auth.run.error.type = "OktaError"
        /\ auth.run.error.msg = "MFA verification failed"
        /\ Requests("sessions") = {}
        /\ auth.run.session = auth.session0
        /\ oktaRec = auth.rec0

(* ------------------------- selection of a factor ----------------------- *)

\* prompt_mfa has asked for a choice at the text prompt
TextChoiceAsked ==
    /\ auth.provider \in {"okta", "jumpcloud"}
    /\ Len(auth.factors) >= 2
    /\ "click.prompt: MFA choice" \in Range(auth.run.prompts)

\* C29: of n >= 2 offered factors every index the text prompt accepts lies
\* in 0..n-1 and the selection returns the factor at that index; no accepted
\* input makes the selection fail
C29_AcceptedChoiceSelectsFactor ==
    TextChoiceAsked =>
        /\ ~(auth.run.out = "raised" /\ auth.run.error.type = "IndexError")
        /\ auth.factor \in Range(auth.factors)

(* -------------------------- reset of the session ----------------------- *)

\* the latest command was `--rm-session` alone
ResetDone ==
    /\ auth.provider = "none"
    /\ "cmd" \in DOMAIN auth
    /\ auth.rm_session /\ ~auth.rm /\ ~auth.given

\* the record of the provider of the latest command
RecordOf == IF auth.cmd = "okta" THEN oktaRec ELSE jcRec

\* the session a client is constructed with from an empty record
EmptySessionOf == IF auth.cmd = "okta" THEN NoOktaSession ELSE NoJumpCloudSession

\* C30: the reset of the session removes the session entry of the provider's
\* record and nothing else, and persists that: domain, username/email and
\* password are unchanged, and the next client built from the record starts
\* with an empty session
C30_ResetClearsOnlySession ==
    /\ [](ResetDone =>
            /\ DOMAIN RecordOf = DOMAIN auth.rec0 \ {"session"}
            /\ \A k \in DOMAIN RecordOf : RecordOf[k] = auth.rec0[k])
    /\ [][(ResetDone /\ auth'.provider = auth.cmd) =>
            /\ auth'.session0 = EmptySessionOf
            /\ \A i \in 1..Len(auth'.run.reqs) : auth'.run.reqs[i].url # "refresh"
            /\ auth'.run.reqs # <<>> => auth'.run.reqs[1].session = EmptySessionOf]_vars

\* a configured record with a stored session was reset
C30_Witness ==
    /\ ResetDone
    /\ auth.cmd = "okta"
    /\ "session" \in DOMAIN auth.rec0
    /\ OktaConfigured(oktaRec)

(* ------------------------------- load() -------------------------------- *)

\* the load() of a role-credential renewal has run
Loaded == frame.ctx \in {"role", "saml"} /\ frame.given # EmptyDict

\* the cache load() read
LoadCache == IF ret # NoRet THEN ret.cache0 ELSE frame.selfEntry.cache0

\* the entity's slot in that cache
LoadSlot == CredentialsSlot(LoadCache, frame.given.name)

\* C31: load() never changes a field that holds a non-empty value supplied
\* by the caller, and sets each empty field to the value of the entity's
\* cache slot when the slot has one; when the slot is absent every field is
\* left unchanged
C31_LoadKeepsSuppliedFields ==
    Loaded =>
        /\ DOMAIN frame.loaded = DOMAIN frame.given
        /\ \A f \in DOMAIN frame.given :
              /\ ~Falsy(f, frame.given[f]) => frame.loaded[f] = frame.given[f]
              /\ (Falsy(f, frame.given[f]) /\ f \in DOMAIN LoadSlot) =>
                    frame.loaded[f] = LoadSlot[f]
              /\ (Falsy(f, frame.given[f]) /\ f \notin DOMAIN LoadSlot) =>
                    frame.loaded[f] = frame.given[f]
        /\ frame.given.name \notin StoredNames(LoadCache) => frame.loaded = frame.given

\* add-saml over a stored credential, with another URL and no external id:
\* the URL given is kept, the external id comes from the slot
C31_Witness ==
    /\ Loaded
    /\ frame.ctx = "saml"
    /\ "saml_url" \in DOMAIN LoadSlot
    /\ LoadSlot.saml_url # frame.given.saml_url
    /\ frame.loaded.saml_url = frame.given.saml_url
    /\ frame.given.assume_role_external_id = NoneVal
    /\ frame.loaded.assume_role_external_id = "ext"

(* ------------------------------- duo.py -------------------------------- *)

\* at most MaxPosts POSTs reach the local route in one run of the relay
MaxPosts == 2

\* RESTResponse(): the value of _post_action_response after __init__
Placeholder == [post |-> 0, status |-> "none"]

\* what the upstream answers to the relayed POST: a response, ok or not, or
\* a failure of the transport (requests raises)
UpstreamAnswers == {"ok", "error", "failure"}

\* DuoWebV2(..., post_action_proxy=proxy): the object, the thread of
\* app.run, the requests being handled, and for the record what each step
\* found
NewRelay(proxy) ==
    [stage |-> "constructed", proxy |-> proxy, main |-> "init", server |-> "none",
     server_url |-> "", event |-> FALSE, response |-> Placeholder, handlers |-> <<>>,
     opened |-> FALSE, openedWhen |-> "", slept |-> FALSE, sets |-> 0, writes |-> 0,
     returned |-> Placeholder]

\* the two statements of post_action_handler that follow the upstream
\* request, in their order: the assignment of _post_action_response and
\* _post_action_event.set()
HandlerSteps_set_first == <<"set", "store">>

HandlerSteps == <<"store", "set">>

\* `sock.connect_ex((host, port)) == 0`
Connects_always(server) == TRUE

Connects(server) == server = "listening"

\* DuoWebV2(...)
Construct ==
    /\ IF relay.stage = "none" THEN TRUE ELSE relay.main = "returned"
    /\ \E proxy \in BOOLEAN : relay' = NewRelay(proxy)
    /\ UNCHANGED <<core, idp, ext, procs, heap>>

\* start_server: a free port is found and _server_host, _server_port are set
StartServerBind ==
    /\ relay.stage = "constructed"
    /\ relay.main = "init"
    /\ relay' = [relay EXCEPT !.main = "bound", !.server_url = "http://127.0.0.1:port"]
    /\ UNCHANGED <<core, idp, ext, procs, heap>>

\* start_server: thread.start() of the daemon thread that runs app.run
StartServerThread ==
    /\ relay.stage = "constructed"
    /\ relay.main = "bound"
    /\ relay' = [relay EXCEPT !.main = "probing", !.server = "starting"]
    /\ UNCHANGED <<core, idp, ext, procs, heap>>

\* the thread: app.run binds and listens
ServerListen ==
    /\ relay.stage = "constructed"
    /\ relay.server = "starting"
    /\ relay' = [relay EXCEPT !.server = "listening"]
    /\ UNCHANGED <<core, idp, ext, procs, heap>>

\* start_server: one turn of `while True`: break when the connection
\* succeeds, else time.sleep(poll_interval)
Probe ==
    /\ relay.stage = "constructed"
    /\ relay.main = "probing"
    /\ IF Connects(relay.server)
       THEN relay' = [relay EXCEPT !.main = "up"]
       ELSE relay' = [relay EXCEPT !.slept = TRUE]
    /\ UNCHANGED <<core, idp, ext, procs, heap>>

\* prompt: webbrowser.open(self.server_url)
OpenBrowser ==
    /\ relay.stage = "constructed"
    /\ relay.main = "up"
    /\ relay' = [relay EXCEPT !.opened = TRUE, !.openedWhen = relay.server,
                              !.main = IF relay.proxy THEN "waiting" ELSE "reading"]
    /\ UNCHANGED <<core, idp, ext, procs, heap>>

\* the frame of the page posts its form to the route /post_action (the
\* form's action in proxy mode), and a handler begins
PostArrives ==
    /\ relay.stage = "constructed"
    /\ relay.proxy
    /\ relay.opened
    /\ relay.server = "listening"
    /\ Len(relay.handlers) < MaxPosts
    /\ relay' = [relay EXCEPT !.handlers =
                    Append(@, [pc |-> "relaying", r |-> Placeholder, step |-> 1])]
    /\ UNCHANGED <<core, idp, ext, procs, heap>>

\* post_action_handler: http_client.rest_request(url=post_action, ...)
HandlerRelay(i) ==
    /\ relay.stage = "constructed"
    /\ i \in DOMAIN relay.handlers
    /\ relay.handlers[i].pc = "relaying"
    /\ \E answer \in UpstreamAnswers :
          relay' = [relay EXCEPT !.handlers[i] =
                       IF answer = "failure"
                       THEN [@ EXCEPT !.pc = "failed"]
                       ELSE [@ EXCEPT !.pc = "acting", !.r = [post |-> i, status |-> answer]]]
    /\ UNCHANGED <<core, idp, ext, procs, heap>>

\* post_action_handler: its next statement after the request, and after the
\* last the return of the response
HandlerAct(i) ==
    /\ relay.stage = "constructed"
    /\ i \in DOMAIN relay.handlers
    /\ relay.handlers[i].pc = "acting"
    /\ LET h    == relay.handlers[i]
           next == [h EXCEPT !.step = @ + 1,
                             !.pc = IF h.step = Len(HandlerSteps) THEN "done" ELSE "acting"]
       IN IF HandlerSteps[h.step] = "store"
          THEN relay' = [relay EXCEPT !.response = h.r, !.writes = @ + 1,
                                      !.handlers[i] = next]
          ELSE relay' = [relay EXCEPT !.event = TRUE, !.sets = @ + 1,
                                      !.handlers[i] = next]
    /\ UNCHANGED <<core, idp, ext, procs, heap>>

\* prompt: one turn of `while not self._post_action_event.is_set()`
Wait ==
    /\ relay.stage = "constructed"
    /\ relay.main = "waiting"
    /\ IF relay.event
       THEN relay' = [relay EXCEPT !.main = "reading"]
       ELSE relay' = [relay EXCEPT !.slept = TRUE]
    /\ UNCHANGED <<core, idp, ext, procs, heap>>

\* prompt: `return self._post_action_response`
PromptReturns ==
    /\ relay.stage = "constructed"
    /\ relay.main = "reading"
    /\ relay' = [relay EXCEPT !.main = "returned", !.returned = relay.response]
    /\ UNCHANGED <<core, idp, ext, procs, heap>>

MainStep ==
    \/ StartServerBind
    \/ StartServerThread
    \/ Probe
    \/ OpenBrowser
    \/ Wait
    \/ PromptReturns

ListenerStep ==
    \/ ServerListen
    \/ \E i \in 1..MaxPosts : HandlerRelay(i)
    \/ \E i \in 1..MaxPosts : HandlerAct(i)

NextDuo ==
    \/ Construct
    \/ MainStep
    \/ ListenerStep
    \/ PostArrives

SpecDuo == Init /\ [][NextDuo]_vars

\* the threads are scheduled fairly: neither the main thread nor the
\* listener's thread is kept from a step it can take
SpecDuoLive == SpecDuo /\ WF_vars(MainStep) /\ WF_vars(ListenerStep)

\* a DuoWebV2 exists
Relaying == relay.stage = "constructed"

\* C32: the browser is opened only after the listener accepts connections
\* at server_url, which is empty before the server is started; and
\* start_server hands control back to its caller while the listener runs
C32_StartThenOpen ==
    /\ []((Relaying /\ relay.main = "init") => relay.server_url = "" /\ relay.server = "none")
    /\ []((Relaying /\ relay.opened) =>
             /\ relay.openedWhen = "listening"
             /\ relay.server_url # "")
    /\ []((Relaying /\ relay.main \in {"up", "waiting", "reading", "returned"}) =>
             relay.server = "listening")
    /\ [][(Relaying /\ relay'.stage = "constructed" /\ ~relay.opened /\ relay'.opened) =>
             /\ relay.main = "up"
             /\ relay.server = "listening"
             /\ relay'.server = "listening"]_vars
    /\ (Relaying /\ relay.main = "init") ~> (Relaying /\ relay.opened)

\* the main thread waits for the callback, having slept in start_server
\* until the listener's thread was up
C32_Witness ==
    /\ Relaying
    /\ relay.main = "waiting"
    /\ relay.opened
    /\ relay.slept
    /\ relay.server = "listening"
    /\ relay.handlers = <<>>

\* the POSTs the route has received have all been handled to their end
AllHandled ==
    /\ Relaying
    /\ relay.handlers # <<>>
    /\ \A i \in DOMAIN relay.handlers : relay.handlers[i].pc = "done"

\* C33: in a run of the relay the signal and the response slot are each set
\* exactly once by the callback handler, however many POSTs the route
\* receives
C33_SignalAndSlotSetOnce ==
    /\ Relaying => relay.sets <= 1 /\ relay.writes <= 1
    /\ AllHandled => relay.sets = 1 /\ relay.writes = 1

\* C34: in proxy mode prompt returns only after the callback handler has
\* stored the upstream response, and returns that response, never the
\* placeholder of the constructor: in every interleaving of the two threads
\* the slot is written before the signal is seen
C34_PromptReturnsRelayedResponse ==
    (Relaying /\ relay.proxy) =>
        /\ relay.event => relay.response # Placeholder /\ relay.writes >= 1
        /\ relay.main \in {"reading", "returned"} => relay.event
        /\ relay.main = "returned" =>
              /\ relay.returned # Placeholder
              /\ relay.returned.post \in DOMAIN relay.handlers
              /\ relay.handlers[relay.returned.post].r = relay.returned
              /\ relay.handlers[relay.returned.post].pc \in {"acting", "done"}
              /\ relay.returned.status \in {"ok", "error"}

\* the prompt has returned the error response relayed for the second POST
\* while the upstream request of the first POST is still under way
C34_Witness ==
    /\ Relaying
    /\ relay.proxy
    /\ relay.main = "returned"
    /\ relay.returned = [post |-> 2, status |-> "error"]
    /\ relay.handlers[1].pc = "relaying"

\* C35: in proxy mode, once a completion POST has reached the local route
\* the waiting prompt eventually returns, whatever the upstream answers to
\* the relayed request: a response, an error response, or no response
C35_PromptEventuallyReturns ==
    (Relaying /\ relay.proxy /\ relay.handlers # <<>>) ~> (Relaying /\ relay.main = "returned")

(* --------------------- a renewal that fails midway --------------------- *)

\* a role-credential renewal has ended with an error, whichever step raised
RenewalFailed == Loaded /\ ret # NoRet /\ ret.outcome = "raised"

\* the cache and the keyring entry as the renewal found them
RenewalEntry == IF frame.ctx = "role" THEN frame.selfEntry ELSE ret

\* whether record c has a slot for the credential, and what it holds
SlotOf(c) ==
    <<frame.given.name \in StoredNames(c), CredentialsSlot(c, frame.given.name)>>

\* C36: when a step of a role-credential renewal fails (the provider's
\* authentication, the primary exchange or the assumption of the secondary
\* role) the credential's slot, in the cache and in the keyring, holds what
\* it held before the renewal; no partially renewed credential, such as the
\* primary keys of an entity with a secondary role, is ever written
C36_FailedRenewalWritesNothing ==
    /\ RenewalFailed =>
          /\ SlotOf(cache) = SlotOf(RenewalEntry.cache0)
          /\ SlotOf(Load(keyring)) = SlotOf(Load(RenewalEntry.keyring0))
    /\ (Loaded /\ frame.ctx = "role" /\ ret = NoRet) =>
          /\ SlotOf(cache) = SlotOf(frame.selfEntry.cache0)
          /\ SlotOf(Load(keyring)) = SlotOf(Load(frame.selfEntry.keyring0))
    /\ (Loaded /\ ret # NoRet /\ ret.outcome = "renewed"
          /\ ret.kind \in {"sso_role", "saml_role"} /\ Truthy(ret.self.assume_role_arn)) =>
          /\ SlotOf(cache) = <<TRUE, ret.self>>
          /\ SlotOf(Load(keyring)) = <<TRUE, ret.self>>
          /\ ret.self.access_key_id = "AK2"

\* the assumption of the secondary role failed after the primary exchange,
\* over a stored credential
C36_Witness ==
    /\ RenewalFailed
    /\ ret.error.msg = "assume_role"
    /\ ret.self.access_key_id = "AK1"
    /\ SlotOf(ret.cache0)[1]
    /\ SlotOf(cache)[2].access_key_id # ret.self.access_key_id

(* ------------------ a client call that fails midway -------------------- *)

\* a get_okta_client / get_jumpcloud_client call is under way or has ended
ClientCall == auth.provider \in {"okta", "jumpcloud"}

\* the record of the provider of that call
CalledRecord == IF auth.provider = "okta" THEN oktaRec ELSE jcRec

\* C37: when the authentication of get_okta_client / get_jumpcloud_client
\* fails (credentials rejected, an error of the provider, a failed MFA
\* verification) the provider's record is unchanged: the session is written
\* only once the authentication has come to its end without an error
C37_FailedAuthenticationKeepsRecord ==
    ClientCall =>
        /\ auth.run.out = "raised" => CalledRecord = auth.rec0
        /\ auth.stage \in {"mfa", "verify"} => CalledRecord = auth.rec0
        /\ CalledRecord # auth.rec0 =>
              /\ auth.stage = "ended"
              /\ auth.run.out = "returned"
              /\ CalledRecord = Put(auth.rec0, "session", auth.run.session)

\* a JumpCloud verification failed after the client had taken a new XSRF
\* token and cookie, over a record with a stored session
C37_Witness ==
    /\ ClientCall
    /\ auth.provider = "jumpcloud"
    /\ auth.run.out = "raised"
    /\ auth.run.error.msg = "MFA verification failed"
    /\ auth.run.session # auth.session0
    /\ "session" \in DOMAIN jcRec
    /\ jcRec = auth.rec0

(* ------------- two invocations on one keyring entry -------------------- *)

\* the invocations of the program that run at the same time
Invocations == {1, 2}

\* what an invocation renews: the credential of a name, or the device
\* authorization of the start URL
RenewedSlots == {"dev", "prod", "authorization"}

\* the keys or the token a renewal is issued
IssuedValues == {"K1", "K2"}

\* an invocation that has not begun, or has exited
NoInvocation == [pc |-> "idle", slot |-> "", value |-> "", data |-> EmptyDict]

\* the entity an invocation has renewed, as dataclasses.asdict gives it
Renewed(slot, value) ==
    IF slot = "authorization"
    THEN [NewAuthorization("https://a.awsapps.com/start#/") EXCEPT
             !.access_token = value, !.expiration_timestamp = MaxTime]
    ELSE [NewSSORoleCredentials(slot, "https://a.awsapps.com/start#/", <<NoneVal, NoneVal>>) EXCEPT
             !.access_key_id = value, !.expiration_timestamp = MaxTime]

\* the assignment of the slot in the invocation's AWSData
WriteSlot(data, slot, value) ==
    IF slot = "authorization"
    THEN WriteAuthorization(data, Renewed(slot, value))
    ELSE WriteCredentials(data, Renewed(slot, value))

\* the slot as record c holds it
ReadSlot(c, slot) ==
    IF slot = "authorization"
    THEN AuthorizationSlot(c, "https://a.awsapps.com/start#/")
    ELSE CredentialsSlot(c, slot)

\* an invocation begins: the import of the plugin constructs
\* CacheableAWSObject.cache = AWSData(), which loads the keyring entry
Invoke(i, slot, value) ==
    /\ IF procs.stage = "none" THEN TRUE ELSE procs.p[i].pc = "idle"
    /\ LET p == IF procs.stage = "none" THEN [j \in Invocations |-> NoInvocation] ELSE procs.p
       IN /\ \A j \in Invocations \ {i} : p[j].slot # slot
          /\ procs' = [stage |-> "running",
                       p |-> [p EXCEPT ![i] = [pc |-> "loaded", slot |-> slot, value |-> value,
                                               data |-> Load(keyring)]]]
    /\ UNCHANGED <<core, idp, ext, relay, heap>>

\* renew(): the provider has answered and the slot of the invocation's
\* record is assigned
AssignSlot(i) ==
    /\ procs.stage = "running"
    /\ procs.p[i].pc = "loaded"
    /\ procs' = [procs EXCEPT !.p[i].pc = "assigned",
                              !.p[i].data = WriteSlot(@, procs.p[i].slot, procs.p[i].value)]
    /\ UNCHANGED <<core, idp, ext, relay, heap>>

\* renew(): self.cache.save()
SaveRecord(i) ==
    /\ procs.stage = "running"
    /\ procs.p[i].pc = "assigned"
    /\ keyring' = Save(procs.p[i].data)
    /\ procs' = [procs EXCEPT !.p[i].pc = "saved"]
    /\ UNCHANGED <<now, cache, pc, frame, calls, sleeps, ret, ad, lastSet, idp, ext, relay, heap>>

\* both invocations have exited
Exit ==
    /\ procs.stage = "running"
    /\ \A i \in Invocations : procs.p[i].pc = "saved"
    /\ procs' = [stage |-> "running", p |-> [i \in Invocations |-> NoInvocation]]
    /\ UNCHANGED <<core, idp, ext, relay, heap>>

NextConc ==
    \/ \E i \in Invocations, slot \in RenewedSlots, value \in IssuedValues : Invoke(i, slot, value)
    \/ \E i \in Invocations : AssignSlot(i)
    \/ \E i \in Invocations : SaveRecord(i)
    \/ Exit

SpecConc == Init /\ [][NextConc]_vars

\* both invocations have finished
BothFinished ==
    /\ procs.stage = "running"
    /\ \A i \in Invocations : procs.p[i].pc = "saved"

\* C38: when two invocations work on the same persisted record at the same
\* time, each loading it, renewing a slot of its own and saving, the record
\* holds both updates once both have finished: no save reverts or removes
\* the slot another invocation's save has written
C38_ConcurrentSavesKeepBothSlots ==
    BothFinished =>
        \A i \in Invocations :
            ReadSlot(Load(keyring), procs.p[i].slot) = Renewed(procs.p[i].slot, procs.p[i].value)

(* ---------------- provider clients and their sessions ------------------ *)

\* at most MaxClients clients are constructed in one process
MaxClients == 3

Providers2 == {"okta", "jumpcloud"}

\* OktaClientSession() / JumpCloudClientSession()
EmptySession(provider) == IF provider = "okta" THEN NoOktaSession ELSE NoJumpCloudSession

\* the sessions a provider issues
IssuedSessions(provider) == IF provider = "okta" THEN OktaSessions ELSE JumpCloudSessions

\* the object the `session` parameter defaults to: the default of a Python
\* parameter is evaluated once, when the def statement runs, so every call
\* without the argument receives this one object
DefaultObject(provider) == IF provider = "okta" THEN 0 ELSE 1

\* the process after the import of both libraries: the two default objects
\* exist, no client does
Imported2 ==
    [stage |-> "imported",
     objects |-> [o \in {DefaultObject(p) : p \in Providers2} |->
                    IF o = DefaultObject("okta") THEN NoOktaSession ELSE NoJumpCloudSession],
     clients |-> <<>>]

\* OktaClient(domain, username, password) / JumpCloudClient(email, password):
\* `self._session = session`; explicit is the session object a caller
\* passes, "" when it passes none
NewClient(provider, explicit) ==
    /\ LET h == IF heap.stage = "none" THEN Imported2 ELSE heap
           n == Len(h.clients) + 1
           passed == n + 1
       IN /\ n <= MaxClients
          /\ \E given \in IF explicit THEN {EmptySession(provider)} \cup IssuedSessions(provider)
                          ELSE {EmptySession(provider)} :
                heap' = [h EXCEPT
                           !.objects = IF explicit
                                       THEN [o \in DOMAIN h.objects \cup {passed} |->
                                               IF o = passed THEN given ELSE h.objects[o]]
                                       ELSE h.objects,
                           !.clients = Append(@,
                               [provider |-> provider, explicit |-> explicit,
                                ref |-> IF explicit THEN passed ELSE DefaultObject(provider),
                                session0 |-> IF explicit THEN given
                                             ELSE h.objects[DefaultObject(provider)],
                                established |-> FALSE])]
    /\ UNCHANGED <<core, idp, ext, relay, procs>>

\* OktaClient.session_create answered ACTIVE, or JumpCloudClient.xsrf: the
\* fields of self._session are assigned
EstablishSession(c) ==
    /\ heap.stage = "imported"
    /\ c \in DOMAIN heap.clients
    /\ \E s \in IssuedSessions(heap.clients[c].provider) :
          heap' = [heap EXCEPT !.objects[heap.clients[c].ref] = s,
                               !.clients[c].established = TRUE]
    /\ UNCHANGED <<core, idp, ext, relay, procs>>

\* the process exits
ExitProcess ==
    /\ heap.stage = "imported"
    /\ heap.clients # <<>>
    /\ heap' = Imported2
    /\ UNCHANGED <<core, idp, ext, relay, procs>>

NextHeap ==
    \/ \E provider \in Providers2, explicit \in BOOLEAN : NewClient(provider, explicit)
    \/ \E c \in 1..MaxClients : EstablishSession(c)
    \/ ExitProcess

SpecHeap == Init /\ [][NextHeap]_vars

\* client.session
SessionOf(c) == heap.objects[heap.clients[c].ref]

\* C39: two clients constructed without a session do not share session
\* state: what one establishes is not visible in the other, and a client
\* newly constructed without a session starts unauthenticated
C39_ClientsDoNotShareSessions ==
    heap.stage = "imported" =>
        /\ \A c \in DOMAIN heap.clients :
              ~heap.clients[c].explicit => heap.clients[c].session0 = EmptySession(heap.clients[c].provider)
        /\ \A d \in DOMAIN heap.clients :
              (~heap.clients[d].explicit /\ ~heap.clients[d].established) =>
                  SessionOf(d) = heap.clients[d].session0

====
